---- MODULE Spec2Model ----
(***************************************************************************)
(* Model of the schema generator (SchemaGenerator class), of the HTTP      *)
(* handler that drives it (POST /api/generate-schema) and of the upload    *)
(* form in the browser (app.js).                                           *)
(*                                                                         *)
(* JavaScript objects are modelled as TLA+ records that hold exactly the   *)
(* keys the object holds: an unset key is a key outside DOMAIN.            *)
(***************************************************************************)
EXTENDS Integers, Sequences, FiniteSets, TLC

VARIABLES
    cfg,        \* cfg[g]: this.config of generator instance g
    tables,     \* tables[g]: this.tables of generator instance g
    built,      \* built[g]: how often generateStructure ran on instance g
    call,       \* call[c]: one invocation of generateFromFiles (its locals, its outcome)
    disk,       \* disk[path]: the file system, "present", "locked" or "absent"
    req,        \* the HTTP request being handled (req.body, req.files)
    hpc,        \* position of the HTTP handler
    cleanup,    \* cleanup[i]: the unlink of req.files[i] started by cleanupFiles
    res,        \* the HTTP response sent (status 0: none yet)
    arg,        \* the function applied by itself and the value handed to it
    ret,        \* what that application returned
    page        \* app.js: the state of the page in the browser

vars == <<cfg, tables, built, call, disk, req, hpc, cleanup, res, arg, ret, page>>

--------------------------------------------------------------------------
(* Bounds                                                                  *)

\* longest file list handed to generateFromFiles / uploaded in one request
MaxFiles == 2
\* how often generateStructure is invoked directly on one instance
MaxBuilds == 2
\* longest field name handed to sanitizeFieldName
MaxNameLen == 4
\* longest enumerated value handed to inferType
MaxValueLen == 3
\* most lines of a CSV content handed to analyzeCSV
MaxCsvLines == 3

\* how many tables the augmenters applied by themselves may append to one instance
MaxAppends == 3

\* how many arrays and objects a parsed JSON tree nests
MaxJsonDepth == 5

\* most fields of a table handed to a renderer by itself
MaxFields == 3

\* most files of one pick or drop
MaxPick == 2

\* selectedFiles takes no further files from this length on
MaxSelected == 2

\* how often the form is submitted
MaxSubmits == 2

--------------------------------------------------------------------------
(* JavaScript values                                                       *)

\* the object {} (no keys)
EmptyObject == [k \in {} |-> k]

\* obj[key] is set (not undefined)
Has(obj, key) == key \in DOMAIN obj

\* if (obj[key]) for a key that holds a boolean when set
Truthy(obj, key) == Has(obj, key) /\ obj[key] = TRUE

\* obj[key] inside a template literal or in obj[key] + name, for a key that holds a string when set
JsString(obj, key) == IF Has(obj, key) THEN obj[key] ELSE "undefined"

\* literal default values of the catalog, with the text String(value) gives
StrDefault(s) == [type |-> "string", text |-> s]

BoolDefault(s) == [type |-> "boolean", text |-> s]

NumDefault(s) == [type |-> "number", text |-> s]

--------------------------------------------------------------------------
(* SchemaGenerator: table catalog                                          *)

\* faulty variant: the prefix is dropped
tableNameUnprefixed(config, name) == name

tableName(config, name) == JsString(config, "tablePrefix") \o name

generateBlogStructure(config, tbls) ==
    tbls \o <<
      [name |-> tableName(config, "posts"),
       fields |-> <<
        [name |-> "id", type |-> "integer", required |-> TRUE, primaryKey |-> TRUE, autoIncrement |-> TRUE],
        [name |-> "title", type |-> "string", required |-> TRUE, length |-> 255],
        [name |-> "slug", type |-> "string", required |-> TRUE, length |-> 255, unique |-> TRUE],
        [name |-> "content", type |-> "text", required |-> TRUE],
        [name |-> "excerpt", type |-> "text", required |-> FALSE],
        [name |-> "author_id", type |-> "integer", required |-> FALSE],
        [name |-> "category_id", type |-> "integer", required |-> FALSE],
        [name |-> "status", type |-> "string", required |-> TRUE, default |-> StrDefault("draft"), length |-> 20],
        [name |-> "published_at", type |-> "timestamp", required |-> FALSE],
        [name |-> "created_at", type |-> "timestamp", required |-> TRUE],
        [name |-> "updated_at", type |-> "timestamp", required |-> TRUE] >>],
      [name |-> tableName(config, "categories"),
       fields |-> <<
        [name |-> "id", type |-> "integer", required |-> TRUE, primaryKey |-> TRUE, autoIncrement |-> TRUE],
        [name |-> "name", type |-> "string", required |-> TRUE, length |-> 100],
        [name |-> "slug", type |-> "string", required |-> TRUE, length |-> 100, unique |-> TRUE],
        [name |-> "description", type |-> "text", required |-> FALSE],
        [name |-> "parent_id", type |-> "integer", required |-> FALSE],
        [name |-> "created_at", type |-> "timestamp", required |-> TRUE] >>],
      [name |-> tableName(config, "tags"),
       fields |-> <<
        [name |-> "id", type |-> "integer", required |-> TRUE, primaryKey |-> TRUE, autoIncrement |-> TRUE],
        [name |-> "name", type |-> "string", required |-> TRUE, length |-> 50, unique |-> TRUE],
        [name |-> "slug", type |-> "string", required |-> TRUE, length |-> 50, unique |-> TRUE],
        [name |-> "created_at", type |-> "timestamp", required |-> TRUE] >>],
      [name |-> tableName(config, "post_tags"),
       fields |-> <<
        [name |-> "post_id", type |-> "integer", required |-> TRUE],
        [name |-> "tag_id", type |-> "integer", required |-> TRUE],
        [name |-> "created_at", type |-> "timestamp", required |-> TRUE] >>],
      [name |-> tableName(config, "authors"),
       fields |-> <<
        [name |-> "id", type |-> "integer", required |-> TRUE, primaryKey |-> TRUE, autoIncrement |-> TRUE],
        [name |-> "name", type |-> "string", required |-> TRUE, length |-> 100],
        [name |-> "email", type |-> "string", required |-> TRUE, length |-> 255, unique |-> TRUE],
        [name |-> "bio", type |-> "text", required |-> FALSE],
        [name |-> "avatar_url", type |-> "string", required |-> FALSE, length |-> 500],
        [name |-> "created_at", type |-> "timestamp", required |-> TRUE] >>],
      [name |-> tableName(config, "comments"),
       fields |-> <<
        [name |-> "id", type |-> "integer", required |-> TRUE, primaryKey |-> TRUE, autoIncrement |-> TRUE],
        [name |-> "post_id", type |-> "integer", required |-> TRUE],
        [name |-> "author_name", type |-> "string", required |-> TRUE, length |-> 100],
        [name |-> "author_email", type |-> "string", required |-> TRUE, length |-> 255],
        [name |-> "content", type |-> "text", required |-> TRUE],
        [name |-> "status", type |-> "string", required |-> TRUE, default |-> StrDefault("pending"), length |-> 20],
        [name |-> "parent_id", type |-> "integer", required |-> FALSE],
        [name |-> "created_at", type |-> "timestamp", required |-> TRUE] >>]
    >>

generatePortfolioStructure(config, tbls) ==
    tbls \o <<
      [name |-> tableName(config, "projects"),
       fields |-> <<
        [name |-> "id", type |-> "integer", required |-> TRUE, primaryKey |-> TRUE, autoIncrement |-> TRUE],
        [name |-> "title", type |-> "string", required |-> TRUE, length |-> 255],
        [name |-> "slug", type |-> "string", required |-> TRUE, length |-> 255, unique |-> TRUE],
        [name |-> "description", type |-> "text", required |-> TRUE],
        [name |-> "client", type |-> "string", required |-> FALSE, length |-> 100],
        [name |-> "project_url", type |-> "string", required |-> FALSE, length |-> 500],
        [name |-> "github_url", type |-> "string", required |-> FALSE, length |-> 500],
        [name |-> "featured", type |-> "boolean", required |-> TRUE, default |-> BoolDefault("false")],
        [name |-> "completed_at", type |-> "date", required |-> FALSE],
        [name |-> "created_at", type |-> "timestamp", required |-> TRUE],
        [name |-> "updated_at", type |-> "timestamp", required |-> TRUE] >>],
      [name |-> tableName(config, "skills"),
       fields |-> <<
        [name |-> "id", type |-> "integer", required |-> TRUE, primaryKey |-> TRUE, autoIncrement |-> TRUE],
        [name |-> "name", type |-> "string", required |-> TRUE, length |-> 50, unique |-> TRUE],
        [name |-> "category", type |-> "string", required |-> FALSE, length |-> 50],
        [name |-> "proficiency", type |-> "integer", required |-> FALSE],
        [name |-> "created_at", type |-> "timestamp", required |-> TRUE] >>],
      [name |-> tableName(config, "project_skills"),
       fields |-> <<
        [name |-> "project_id", type |-> "integer", required |-> TRUE],
        [name |-> "skill_id", type |-> "integer", required |-> TRUE] >>]
    >>

generateEcommerceStructure(config, tbls) ==
    tbls \o <<
      [name |-> tableName(config, "products"),
       fields |-> <<
        [name |-> "id", type |-> "integer", required |-> TRUE, primaryKey |-> TRUE, autoIncrement |-> TRUE],
        [name |-> "name", type |-> "string", required |-> TRUE, length |-> 255],
        [name |-> "slug", type |-> "string", required |-> TRUE, length |-> 255, unique |-> TRUE],
        [name |-> "description", type |-> "text", required |-> TRUE],
        [name |-> "price", type |-> "decimal", required |-> TRUE, precision |-> 10, scale |-> 2],
        [name |-> "compare_price", type |-> "decimal", required |-> FALSE, precision |-> 10, scale |-> 2],
        [name |-> "sku", type |-> "string", required |-> FALSE, length |-> 100, unique |-> TRUE],
        [name |-> "stock_quantity", type |-> "integer", required |-> TRUE, default |-> NumDefault("0")],
        [name |-> "category_id", type |-> "integer", required |-> FALSE],
        [name |-> "status", type |-> "string", required |-> TRUE, default |-> StrDefault("active"), length |-> 20],
        [name |-> "created_at", type |-> "timestamp", required |-> TRUE],
        [name |-> "updated_at", type |-> "timestamp", required |-> TRUE] >>],
      [name |-> tableName(config, "categories"),
       fields |-> <<
        [name |-> "id", type |-> "integer", required |-> TRUE, primaryKey |-> TRUE, autoIncrement |-> TRUE],
        [name |-> "name", type |-> "string", required |-> TRUE, length |-> 100],
        [name |-> "slug", type |-> "string", required |-> TRUE, length |-> 100, unique |-> TRUE],
        [name |-> "parent_id", type |-> "integer", required |-> FALSE],
        [name |-> "created_at", type |-> "timestamp", required |-> TRUE] >>],
      [name |-> tableName(config, "orders"),
       fields |-> <<
        [name |-> "id", type |-> "integer", required |-> TRUE, primaryKey |-> TRUE, autoIncrement |-> TRUE],
        [name |-> "order_number", type |-> "string", required |-> TRUE, length |-> 50, unique |-> TRUE],
        [name |-> "customer_id", type |-> "integer", required |-> FALSE],
        [name |-> "total", type |-> "decimal", required |-> TRUE, precision |-> 10, scale |-> 2],
        [name |-> "status", type |-> "string", required |-> TRUE, default |-> StrDefault("pending"), length |-> 20],
        [name |-> "created_at", type |-> "timestamp", required |-> TRUE],
        [name |-> "updated_at", type |-> "timestamp", required |-> TRUE] >>]
    >>

generateDocumentationStructure(config, tbls) ==
    tbls \o <<
      [name |-> tableName(config, "pages"),
       fields |-> <<
        [name |-> "id", type |-> "integer", required |-> TRUE, primaryKey |-> TRUE, autoIncrement |-> TRUE],
        [name |-> "title", type |-> "string", required |-> TRUE, length |-> 255],
        [name |-> "slug", type |-> "string", required |-> TRUE, length |-> 255, unique |-> TRUE],
        [name |-> "content", type |-> "text", required |-> TRUE],
        [name |-> "parent_id", type |-> "integer", required |-> FALSE],
        [name |-> "order", type |-> "integer", required |-> TRUE, default |-> NumDefault("0")],
        [name |-> "version", type |-> "string", required |-> FALSE, length |-> 20],
        [name |-> "created_at", type |-> "timestamp", required |-> TRUE],
        [name |-> "updated_at", type |-> "timestamp", required |-> TRUE] >>],
      [name |-> tableName(config, "sections"),
       fields |-> <<
        [name |-> "id", type |-> "integer", required |-> TRUE, primaryKey |-> TRUE, autoIncrement |-> TRUE],
        [name |-> "name", type |-> "string", required |-> TRUE, length |-> 100],
        [name |-> "slug", type |-> "string", required |-> TRUE, length |-> 100, unique |-> TRUE],
        [name |-> "order", type |-> "integer", required |-> TRUE, default |-> NumDefault("0")],
        [name |-> "created_at", type |-> "timestamp", required |-> TRUE] >>]
    >>

generateCorporateStructure(config, tbls) ==
    tbls \o <<
      [name |-> tableName(config, "pages"),
       fields |-> <<
        [name |-> "id", type |-> "integer", required |-> TRUE, primaryKey |-> TRUE, autoIncrement |-> TRUE],
        [name |-> "title", type |-> "string", required |-> TRUE, length |-> 255],
        [name |-> "slug", type |-> "string", required |-> TRUE, length |-> 255, unique |-> TRUE],
        [name |-> "content", type |-> "text", required |-> TRUE],
        [name |-> "meta_title", type |-> "string", required |-> FALSE, length |-> 255],
        [name |-> "meta_description", type |-> "text", required |-> FALSE],
        [name |-> "template", type |-> "string", required |-> FALSE, length |-> 50],
        [name |-> "status", type |-> "string", required |-> TRUE, default |-> StrDefault("draft"), length |-> 20],
        [name |-> "created_at", type |-> "timestamp", required |-> TRUE],
        [name |-> "updated_at", type |-> "timestamp", required |-> TRUE] >>],
      [name |-> tableName(config, "team_members"),
       fields |-> <<
        [name |-> "id", type |-> "integer", required |-> TRUE, primaryKey |-> TRUE, autoIncrement |-> TRUE],
        [name |-> "name", type |-> "string", required |-> TRUE, length |-> 100],
        [name |-> "position", type |-> "string", required |-> TRUE, length |-> 100],
        [name |-> "bio", type |-> "text", required |-> FALSE],
        [name |-> "email", type |-> "string", required |-> FALSE, length |-> 255],
        [name |-> "photo_url", type |-> "string", required |-> FALSE, length |-> 500],
        [name |-> "order", type |-> "integer", required |-> TRUE, default |-> NumDefault("0")],
        [name |-> "created_at", type |-> "timestamp", required |-> TRUE] >>],
      [name |-> tableName(config, "services"),
       fields |-> <<
        [name |-> "id", type |-> "integer", required |-> TRUE, primaryKey |-> TRUE, autoIncrement |-> TRUE],
        [name |-> "title", type |-> "string", required |-> TRUE, length |-> 255],
        [name |-> "slug", type |-> "string", required |-> TRUE, length |-> 255, unique |-> TRUE],
        [name |-> "description", type |-> "text", required |-> TRUE],
        [name |-> "icon", type |-> "string", required |-> FALSE, length |-> 100],
        [name |-> "featured", type |-> "boolean", required |-> TRUE, default |-> BoolDefault("false")],
        [name |-> "created_at", type |-> "timestamp", required |-> TRUE] >>]
    >>

generateCustomStructure(config, tbls) ==
    tbls \o <<
      [name |-> tableName(config, "content"),
       fields |-> <<
        [name |-> "id", type |-> "integer", required |-> TRUE, primaryKey |-> TRUE, autoIncrement |-> TRUE],
        [name |-> "title", type |-> "string", required |-> TRUE, length |-> 255],
        [name |-> "slug", type |-> "string", required |-> TRUE, length |-> 255, unique |-> TRUE],
        [name |-> "body", type |-> "text", required |-> TRUE],
        [name |-> "type", type |-> "string", required |-> TRUE, length |-> 50],
        [name |-> "status", type |-> "string", required |-> TRUE, default |-> StrDefault("draft"), length |-> 20],
        [name |-> "created_at", type |-> "timestamp", required |-> TRUE],
        [name |-> "updated_at", type |-> "timestamp", required |-> TRUE] >>]
    >>

\* faulty variant: the metadata table declares its identity column twice
addMetadataTablesTwoIds(config, tbls) ==
    tbls \o <<
      [name |-> tableName(config, "metadata"),
       fields |-> <<
        [name |-> "id", type |-> "integer", required |-> TRUE, primaryKey |-> TRUE, autoIncrement |-> TRUE],
        [name |-> "entity_type", type |-> "string", required |-> TRUE, length |-> 50],
        [name |-> "id", type |-> "integer", required |-> TRUE, primaryKey |-> TRUE, autoIncrement |-> TRUE],
        [name |-> "meta_key", type |-> "string", required |-> TRUE, length |-> 100],
        [name |-> "meta_value", type |-> "text", required |-> FALSE],
        [name |-> "created_at", type |-> "timestamp", required |-> TRUE] >>]
    >>

addMetadataTables(config, tbls) ==
    tbls \o <<
      [name |-> tableName(config, "metadata"),
       fields |-> <<
        [name |-> "id", type |-> "integer", required |-> TRUE, primaryKey |-> TRUE, autoIncrement |-> TRUE],
        [name |-> "entity_type", type |-> "string", required |-> TRUE, length |-> 50],
        [name |-> "entity_id", type |-> "integer", required |-> TRUE],
        [name |-> "meta_key", type |-> "string", required |-> TRUE, length |-> 100],
        [name |-> "meta_value", type |-> "text", required |-> FALSE],
        [name |-> "created_at", type |-> "timestamp", required |-> TRUE] >>]
    >>

addMediaTables(config, tbls) ==
    tbls \o <<
      [name |-> tableName(config, "media"),
       fields |-> <<
        [name |-> "id", type |-> "integer", required |-> TRUE, primaryKey |-> TRUE, autoIncrement |-> TRUE],
        [name |-> "filename", type |-> "string", required |-> TRUE, length |-> 255],
        [name |-> "original_name", type |-> "string", required |-> TRUE, length |-> 255],
        [name |-> "mime_type", type |-> "string", required |-> TRUE, length |-> 100],
        [name |-> "size", type |-> "integer", required |-> TRUE],
        [name |-> "url", type |-> "string", required |-> TRUE, length |-> 500],
        [name |-> "alt_text", type |-> "string", required |-> FALSE, length |-> 255],
        [name |-> "width", type |-> "integer", required |-> FALSE],
        [name |-> "height", type |-> "integer", required |-> FALSE],
        [name |-> "uploaded_at", type |-> "timestamp", required |-> TRUE] >>]
    >>

\* faulty variant: the documentation case is wired to the corporate catalog
generateDomainTablesMiswired(config, tbls) ==
    LET websiteType == JsString(config, "websiteType") IN
    CASE Has(config, "websiteType") /\ websiteType = "blog" -> generateBlogStructure(config, tbls)
      [] Has(config, "websiteType") /\ websiteType = "portfolio" -> generatePortfolioStructure(config, tbls)
      [] Has(config, "websiteType") /\ websiteType = "ecommerce" -> generateEcommerceStructure(config, tbls)
      [] Has(config, "websiteType") /\ websiteType = "documentation" -> generateCorporateStructure(config, tbls)
      [] Has(config, "websiteType") /\ websiteType = "corporate" -> generateCorporateStructure(config, tbls)
      [] OTHER -> generateCustomStructure(config, tbls)

\* faulty variant: the switch has a case 'custom' and no default
generateDomainTablesNoDefault(config, tbls) ==
    LET websiteType == JsString(config, "websiteType") IN
    CASE Has(config, "websiteType") /\ websiteType = "blog" -> generateBlogStructure(config, tbls)
      [] Has(config, "websiteType") /\ websiteType = "portfolio" -> generatePortfolioStructure(config, tbls)
      [] Has(config, "websiteType") /\ websiteType = "ecommerce" -> generateEcommerceStructure(config, tbls)
      [] Has(config, "websiteType") /\ websiteType = "documentation" -> generateDocumentationStructure(config, tbls)
      [] Has(config, "websiteType") /\ websiteType = "corporate" -> generateCorporateStructure(config, tbls)
      [] Has(config, "websiteType") /\ websiteType = "custom" -> generateCustomStructure(config, tbls)
      [] OTHER -> tbls

\* the switch of generateStructure: the domain tables are pushed onto this.tables
generateDomainTables(config, tbls) ==
    LET websiteType == JsString(config, "websiteType") IN
    CASE Has(config, "websiteType") /\ websiteType = "blog" -> generateBlogStructure(config, tbls)
      [] Has(config, "websiteType") /\ websiteType = "portfolio" -> generatePortfolioStructure(config, tbls)
      [] Has(config, "websiteType") /\ websiteType = "ecommerce" -> generateEcommerceStructure(config, tbls)
      [] Has(config, "websiteType") /\ websiteType = "documentation" -> generateDocumentationStructure(config, tbls)
      [] Has(config, "websiteType") /\ websiteType = "corporate" -> generateCorporateStructure(config, tbls)
      [] OTHER -> generateCustomStructure(config, tbls)

\* faulty variant: the media table is added before the metadata table
generateStructureMediaFirst(config, tbls) ==
    LET base == generateDomainTables(config, tbls)
        withMedia == IF Truthy(config, "includeImages") THEN addMediaTables(config, base) ELSE base
    IN  IF Truthy(config, "includeMetadata") THEN addMetadataTables(config, withMedia) ELSE withMedia

\* generateStructure(analyzedData): analyzedData is passed on and never read
generateStructure(config, tbls) ==
    LET base == generateDomainTables(config, tbls)
        withMeta == IF Truthy(config, "includeMetadata") THEN addMetadataTables(config, base) ELSE base
    IN  IF Truthy(config, "includeImages") THEN addMediaTables(config, withMeta) ELSE withMeta

--------------------------------------------------------------------------
(* Strings: Len and SubSeq read a string character by character.           *)

CharAt(s, i) == SubSeq(s, i, i)

UpperCase == "ABCDEFGHIJKLMNOPQRSTUVWXYZ"

LowerCase == "abcdefghijklmnopqrstuvwxyz"

\* String.prototype.toLowerCase on one character
toLowerCaseChar(ch) ==
    IF \E i \in 1..Len(UpperCase) : CharAt(UpperCase, i) = ch
    THEN CharAt(LowerCase, CHOOSE i \in 1..Len(UpperCase) : CharAt(UpperCase, i) = ch)
    ELSE ch

RECURSIVE toLowerCase(_)
toLowerCase(s) ==
    IF s = "" THEN "" ELSE toLowerCaseChar(CharAt(s, 1)) \o toLowerCase(Tail(s))

\* the class \s restricted to the characters of the model
IsSpace(ch) == ch \in {" ", "\t", "\n", "\r"}

\* .replace(/\s+/g, '_'): every maximal run of white space becomes one '_'
RECURSIVE replaceSpaces(_)
replaceSpaces(s) ==
    IF s = "" THEN ""
    ELSE IF IsSpace(CharAt(s, 1))
         THEN IF Len(s) > 1 /\ IsSpace(CharAt(s, 2))
              THEN replaceSpaces(Tail(s))
              ELSE "_" \o replaceSpaces(Tail(s))
         ELSE CharAt(s, 1) \o replaceSpaces(Tail(s))

\* this.config.projectName inside a template literal
projectNameText(config) == JsString(config, "projectName")

\* the backquote that MySQL puts around identifiers
Backquote == SubSeq("`'", 1, 1)

--------------------------------------------------------------------------
(* SchemaGenerator: renderers.  The rendered text is held as the sequence  *)
(* of its lines (the text split at every "\n").                            *)

\* field.length || 255, field.precision || 10, field.scale || 2
OrElse(field, key, dflt) == IF Has(field, key) /\ field[key] # 0 THEN field[key] ELSE dflt

mapTypeToMySQL(field) ==
    CASE field.type = "integer" -> "INT"
      [] field.type = "string" -> "VARCHAR(" \o ToString(OrElse(field, "length", 255)) \o ")"
      [] field.type = "text" -> "TEXT"
      [] field.type = "boolean" -> "BOOLEAN"
      [] field.type = "date" -> "DATE"
      [] field.type = "timestamp" -> "TIMESTAMP DEFAULT CURRENT_TIMESTAMP"
      [] field.type = "decimal" ->
            "DECIMAL(" \o ToString(OrElse(field, "precision", 10)) \o ","
                       \o ToString(OrElse(field, "scale", 2)) \o ")"
      [] OTHER -> "VARCHAR(255)"

mapTypeToPostgreSQL(field) ==
    CASE field.type = "integer" -> "INTEGER"
      [] field.type = "string" -> "VARCHAR(" \o ToString(OrElse(field, "length", 255)) \o ")"
      [] field.type = "text" -> "TEXT"
      [] field.type = "boolean" -> "BOOLEAN"
      [] field.type = "date" -> "DATE"
      [] field.type = "timestamp" -> "TIMESTAMP DEFAULT CURRENT_TIMESTAMP"
      [] field.type = "decimal" ->
            "DECIMAL(" \o ToString(OrElse(field, "precision", 10)) \o ","
                       \o ToString(OrElse(field, "scale", 2)) \o ")"
      [] OTHER -> "VARCHAR(255)"

\* faulty variant: the embedded dialect keeps the relational names of boolean and date
mapTypeToSQLiteRelationalNames(field) ==
    CASE field.type = "integer" -> "INTEGER"
      [] field.type = "string" -> "TEXT"
      [] field.type = "text" -> "TEXT"
      [] field.type = "boolean" -> "BOOLEAN"
      [] field.type = "date" -> "DATE"
      [] field.type = "timestamp" -> "TEXT"
      [] field.type = "decimal" -> "REAL"
      [] OTHER -> "TEXT"

mapTypeToSQLite(field) ==
    CASE field.type = "integer" -> "INTEGER"
      [] field.type = "string" -> "TEXT"
      [] field.type = "text" -> "TEXT"
      [] field.type = "boolean" -> "INTEGER"
      [] field.type = "date" -> "TEXT"
      [] field.type = "timestamp" -> "TEXT"
      [] field.type = "decimal" -> "REAL"
      [] OTHER -> "TEXT"

mapTypeToMongo(type) ==
    CASE type = "integer" -> "int"
      [] type = "string" -> "string"
      [] type = "text" -> "string"
      [] type = "boolean" -> "bool"
      [] type = "date" -> "date"
      [] type = "timestamp" -> "date"
      [] type = "decimal" -> "double"
      [] OTHER -> "string"

\* the lines of items.join(sep + '\n') for one-line items
JoinLines(items, sep) ==
    IF items = <<>> THEN <<"">>
    ELSE [i \in 1..Len(items) |-> IF i < Len(items) THEN items[i] \o sep ELSE items[i]]

\* fields.map(f => f.name)
NamesOf(fields) == [i \in 1..Len(fields) |-> fields[i].name]

\* names.join(sep) on one line
RECURSIVE JoinText(_, _)
JoinText(names, sep) ==
    IF names = <<>> THEN ""
    ELSE IF Len(names) = 1 THEN names[1]
    ELSE names[1] \o sep \o JoinText(Tail(names), sep)

\* the lines of the blocks, block after block
RECURSIVE Flatten(_)
Flatten(blocks) == IF blocks = <<>> THEN <<>> ELSE Head(blocks) \o Flatten(Tail(blocks))

IsPrimaryKey(f) == Truthy(f, "primaryKey")

\* faulty variant: only a default that is a string is quoted
mysqlFieldDefinitionTypedDefault(field) ==
    "  " \o Backquote \o field.name \o Backquote \o " " \o mapTypeToMySQL(field)
    \o (IF Truthy(field, "required") THEN " NOT NULL" ELSE "")
    \o (IF Truthy(field, "autoIncrement") THEN " AUTO_INCREMENT" ELSE "")
    \o (IF Has(field, "default")
        THEN IF field.default.type = "string"
             THEN " DEFAULT '" \o field.default.text \o "'"
             ELSE " DEFAULT " \o field.default.text
        ELSE "")
    \o (IF Truthy(field, "unique") THEN " UNIQUE" ELSE "")

mysqlFieldDefinition(field) ==
    "  " \o Backquote \o field.name \o Backquote \o " " \o mapTypeToMySQL(field)
    \o (IF Truthy(field, "required") THEN " NOT NULL" ELSE "")
    \o (IF Truthy(field, "autoIncrement") THEN " AUTO_INCREMENT" ELSE "")
    \o (IF Has(field, "default") THEN " DEFAULT '" \o field.default.text \o "'" ELSE "")
    \o (IF Truthy(field, "unique") THEN " UNIQUE" ELSE "")

\* faulty variant: the PRIMARY KEY clause names the first key field only
mysqlTableFirstKeyOnly(table) ==
    LET columns == [i \in 1..Len(table.fields) |-> mysqlFieldDefinition(table.fields[i])]
        primaryKeys == NamesOf(SelectSeq(table.fields, IsPrimaryKey))
        fieldDefinitions ==
            IF Len(primaryKeys) > 0
            THEN Append(columns, "  PRIMARY KEY (" \o Backquote \o primaryKeys[1] \o Backquote \o ")")
            ELSE columns
    IN  <<"CREATE TABLE IF NOT EXISTS " \o Backquote \o table.name \o Backquote \o " (">>
        \o JoinLines(fieldDefinitions, ",")
        \o <<") ENGINE=InnoDB DEFAULT CHARSET=utf8mb4 COLLATE=utf8mb4_unicode_ci;", "">>

mysqlTable(table) ==
    LET columns == [i \in 1..Len(table.fields) |-> mysqlFieldDefinition(table.fields[i])]
        primaryKeys == NamesOf(SelectSeq(table.fields, IsPrimaryKey))
        fieldDefinitions ==
            IF Len(primaryKeys) > 0
            THEN Append(columns, "  PRIMARY KEY (" \o Backquote
                    \o JoinText(primaryKeys, Backquote \o ", " \o Backquote) \o Backquote \o ")")
            ELSE columns
    IN  <<"CREATE TABLE IF NOT EXISTS " \o Backquote \o table.name \o Backquote \o " (">>
        \o JoinLines(fieldDefinitions, ",")
        \o <<") ENGINE=InnoDB DEFAULT CHARSET=utf8mb4 COLLATE=utf8mb4_unicode_ci;", "">>

generateMySQLSchema(config, tbls, now) ==
    <<"-- Generated MySQL Schema for " \o projectNameText(config),
      "-- Generated at: " \o now, "">>
    \o Flatten([i \in 1..Len(tbls) |-> mysqlTable(tbls[i])]) \o <<"">>

\* faulty variant: the identity column keeps the clauses of an ordinary column
postgresFieldDefinitionSerialWithClauses(field) ==
    (IF Truthy(field, "primaryKey") /\ Truthy(field, "autoIncrement")
     THEN "  \"" \o field.name \o "\" SERIAL PRIMARY KEY"
     ELSE "  \"" \o field.name \o "\" " \o mapTypeToPostgreSQL(field))
    \o (IF Truthy(field, "required") THEN " NOT NULL" ELSE "")
    \o (IF Has(field, "default") THEN " DEFAULT '" \o field.default.text \o "'" ELSE "")
    \o (IF Truthy(field, "unique") THEN " UNIQUE" ELSE "")

postgresFieldDefinition(field) ==
    IF Truthy(field, "primaryKey") /\ Truthy(field, "autoIncrement")
    THEN "  \"" \o field.name \o "\" SERIAL PRIMARY KEY"
    ELSE "  \"" \o field.name \o "\" " \o mapTypeToPostgreSQL(field)
         \o (IF Truthy(field, "required") THEN " NOT NULL" ELSE "")
         \o (IF Has(field, "default") THEN " DEFAULT '" \o field.default.text \o "'" ELSE "")
         \o (IF Truthy(field, "unique") THEN " UNIQUE" ELSE "")

\* faulty variant: the columns are written last field first
postgresTableReversed(table) ==
    LET n == Len(table.fields)
        fieldDefinitions ==
            [i \in 1..n |-> postgresFieldDefinition(table.fields[n + 1 - i])]
    IN  <<"CREATE TABLE IF NOT EXISTS \"" \o table.name \o "\" (">>
        \o JoinLines(fieldDefinitions, ",")
        \o <<");", "">>

postgresTable(table) ==
    LET fieldDefinitions ==
            [i \in 1..Len(table.fields) |-> postgresFieldDefinition(table.fields[i])]
    IN  <<"CREATE TABLE IF NOT EXISTS \"" \o table.name \o "\" (">>
        \o JoinLines(fieldDefinitions, ",")
        \o <<");", "">>

generatePostgreSQLSchema(config, tbls, now) ==
    <<"-- Generated PostgreSQL Schema for " \o projectNameText(config),
      "-- Generated at: " \o now, "">>
    \o Flatten([i \in 1..Len(tbls) |-> postgresTable(tbls[i])]) \o <<"">>

sqliteFieldDefinition(field) ==
    "  \"" \o field.name \o "\" " \o mapTypeToSQLite(field)
    \o (IF Truthy(field, "primaryKey") THEN " PRIMARY KEY" ELSE "")
    \o (IF Truthy(field, "autoIncrement") THEN " AUTOINCREMENT" ELSE "")
    \o (IF Truthy(field, "required") THEN " NOT NULL" ELSE "")
    \o (IF Has(field, "default") THEN " DEFAULT '" \o field.default.text \o "'" ELSE "")
    \o (IF Truthy(field, "unique") THEN " UNIQUE" ELSE "")

sqliteTable(table) ==
    LET fieldDefinitions ==
            [i \in 1..Len(table.fields) |-> sqliteFieldDefinition(table.fields[i])]
    IN  <<"CREATE TABLE IF NOT EXISTS \"" \o table.name \o "\" (">>
        \o JoinLines(fieldDefinitions, ",")
        \o <<");", "">>

generateSQLiteSchema(config, tbls, now) ==
    <<"-- Generated SQLite Schema for " \o projectNameText(config),
      "-- Generated at: " \o now, "">>
    \o Flatten([i \in 1..Len(tbls) |-> sqliteTable(tbls[i])]) \o <<"">>

\* faulty variant: autoIncrement fields are described like any other field
generateMongoPropertiesKeepAll(fields) ==
    [i \in 1..Len(fields) |->
        [name |-> fields[i].name,
         bsonType |-> mapTypeToMongo(fields[i].type),
         description |-> fields[i].name \o " field"]]

\* generateMongoProperties: properties[field.name] = {...} in field order; a name
\* set twice keeps its first place and its last value
generateMongoProperties(fields) ==
    LET kept == SelectSeq(fields, LAMBDA f : ~Truthy(f, "autoIncrement"))
        firsts == { i \in 1..Len(kept) : \A j \in 1..(i - 1) : kept[j].name # kept[i].name }
        lastOf(i) == CHOOSE j \in 1..Len(kept) :
                        /\ kept[j].name = kept[i].name
                        /\ \A k \in (j + 1)..Len(kept) : kept[k].name # kept[i].name
        Pick(i) == [name |-> kept[i].name,
                    bsonType |-> mapTypeToMongo(kept[lastOf(i)].type),
                    description |-> kept[i].name \o " field"]
        RECURSIVE Build(_)
        Build(i) == IF i > Len(kept) THEN <<>>
                    ELSE (IF i \in firsts THEN <<Pick(i)>> ELSE <<>>) \o Build(i + 1)
    IN  Build(1)

\* the schema object of generateMongoDBSchema, before JSON.stringify
mongoCollection(table) ==
    [name |-> table.name,
     required |-> NamesOf(SelectSeq(table.fields,
                    LAMBDA f : Truthy(f, "required") /\ ~Truthy(f, "autoIncrement"))),
     properties |-> generateMongoProperties(table.fields)]

\* JSON.stringify of a string (the model's strings hold no character that is escaped)
JsonString(s) == "\"" \o s \o "\""

Indent(n) == SubSeq("                    ", 1, n)

\* JSON.stringify(value, null, 2) of an array of strings under key, at indentation n
JsonStringArray(key, items, n, comma) ==
    IF items = <<>>
    THEN <<Indent(n) \o JsonString(key) \o ": []" \o comma>>
    ELSE <<Indent(n) \o JsonString(key) \o ": [">>
         \o JoinLines([i \in 1..Len(items) |-> Indent(n + 2) \o JsonString(items[i])], ",")
         \o <<Indent(n) \o "]" \o comma>>

mongoPropertyLines(prop, comma) ==
    << Indent(12) \o JsonString(prop.name) \o ": {",
       Indent(14) \o "\"bsonType\": " \o JsonString(prop.bsonType) \o ",",
       Indent(14) \o "\"description\": " \o JsonString(prop.description),
       Indent(12) \o "}" \o comma >>

mongoCollectionLines(coll, comma) ==
    << Indent(4) \o "{",
       Indent(6) \o "\"name\": " \o JsonString(coll.name) \o ",",
       Indent(6) \o "\"validator\": {",
       Indent(8) \o "\"$jsonSchema\": {",
       Indent(10) \o "\"bsonType\": \"object\"," >>
    \o JsonStringArray("required", coll.required, 10, ",")
    \o (IF coll.properties = <<>>
        THEN <<Indent(10) \o "\"properties\": {}">>
        ELSE <<Indent(10) \o "\"properties\": {">>
             \o Flatten([i \in 1..Len(coll.properties) |->
                    mongoPropertyLines(coll.properties[i],
                        IF i < Len(coll.properties) THEN "," ELSE "")])
             \o <<Indent(10) \o "}">>)
    \o << Indent(8) \o "}",
          Indent(6) \o "}",
          Indent(4) \o "}" \o comma >>

\* this.config.projectName.toLowerCase() throws a TypeError when projectName is unset
generateMongoDBSchemaThrows(config) == ~Has(config, "projectName")

generateMongoDBSchema(config, tbls) ==
    LET database == replaceSpaces(toLowerCase(config.projectName))
        collections == [i \in 1..Len(tbls) |-> mongoCollection(tbls[i])]
    IN  << "{",
           Indent(2) \o "\"database\": " \o JsonString(database) \o "," >>
        \o (IF collections = <<>>
            THEN <<Indent(2) \o "\"collections\": []">>
            ELSE <<Indent(2) \o "\"collections\": [">>
                 \o Flatten([i \in 1..Len(collections) |->
                        mongoCollectionLines(collections[i],
                            IF i < Len(collections) THEN "," ELSE "")])
                 \o <<Indent(2) \o "]">>)
        \o << "}" >>

\* faulty variant: the default of the switch is the PostgreSQL renderer
selectedRendererDefaultPostgres(config) ==
    LET dbType == JsString(config, "databaseType") IN
    IF Has(config, "databaseType") /\ dbType \in {"mysql", "postgresql", "sqlite", "mongodb"}
    THEN dbType
    ELSE "postgresql"

\* the renderer the switch of generateSQL selects
selectedRenderer(config) ==
    LET dbType == JsString(config, "databaseType") IN
    IF Has(config, "databaseType") /\ dbType \in {"mysql", "postgresql", "sqlite", "mongodb"}
    THEN dbType
    ELSE "mysql"

generateSQLThrows(config) ==
    selectedRenderer(config) = "mongodb" /\ generateMongoDBSchemaThrows(config)

generateSQL(config, tbls, now) ==
    CASE selectedRenderer(config) = "mysql" -> generateMySQLSchema(config, tbls, now)
      [] selectedRenderer(config) = "postgresql" -> generatePostgreSQLSchema(config, tbls, now)
      [] selectedRenderer(config) = "sqlite" -> generateSQLiteSchema(config, tbls, now)
      [] selectedRenderer(config) = "mongodb" -> generateMongoDBSchema(config, tbls)

\* this.tables.reduce((sum, table) => sum + table.fields.length, 0)
RECURSIVE totalFields(_)
totalFields(tbls) ==
    IF tbls = <<>> THEN 0 ELSE Len(Head(tbls).fields) + totalFields(Tail(tbls))

--------------------------------------------------------------------------
(* SchemaGenerator: sanitizeFieldName, inferType and the analysers         *)

Digits == "0123456789"

Chars(s) == { CharAt(s, i) : i \in 1..Len(s) }

\* the character class [a-z0-9_]
IsNameChar(ch) == ch \in Chars(LowerCase) \cup Chars(Digits) \cup {"_"}

\* .replace(/[^a-z0-9_]/g, '_')
RECURSIVE replaceNonNameChars(_)
replaceNonNameChars(s) ==
    IF s = "" THEN ""
    ELSE (IF IsNameChar(CharAt(s, 1)) THEN CharAt(s, 1) ELSE "_")
         \o replaceNonNameChars(SubSeq(s, 2, Len(s)))

RECURSIVE stripLeading(_)
stripLeading(s) ==
    IF s # "" /\ CharAt(s, 1) = "_" THEN stripLeading(SubSeq(s, 2, Len(s))) ELSE s

RECURSIVE stripTrailing(_)
stripTrailing(s) ==
    IF s # "" /\ CharAt(s, Len(s)) = "_" THEN stripTrailing(SubSeq(s, 1, Len(s) - 1)) ELSE s

\* .replace(/^_+|_+$/g, '')
stripUnderscores(s) == stripTrailing(stripLeading(s))

\* .replace(/_+/g, '_')
RECURSIVE collapseUnderscores(_)
collapseUnderscores(s) ==
    IF Len(s) < 2 THEN s
    ELSE IF CharAt(s, 1) = "_" /\ CharAt(s, 2) = "_"
         THEN collapseUnderscores(SubSeq(s, 2, Len(s)))
         ELSE CharAt(s, 1) \o collapseUnderscores(SubSeq(s, 2, Len(s)))

\* faulty variant: leading and trailing underscores are kept
sanitizeFieldNameNoStrip(name) ==
    collapseUnderscores(replaceNonNameChars(toLowerCase(name)))

sanitizeFieldName(name) ==
    collapseUnderscores(stripUnderscores(replaceNonNameChars(toLowerCase(name))))

\* JavaScript values: null, undefined, and strings
JsNull == [type |-> "null"]

JsUndefined == [type |-> "undefined"]

\* String.prototype.trim
RECURSIVE trimStart(_)
trimStart(s) == IF s # "" /\ IsSpace(CharAt(s, 1)) THEN trimStart(SubSeq(s, 2, Len(s))) ELSE s

RECURSIVE trimEnd(_)
trimEnd(s) ==
    IF s # "" /\ IsSpace(CharAt(s, Len(s))) THEN trimEnd(SubSeq(s, 1, Len(s) - 1)) ELSE s

trim(s) == trimEnd(trimStart(s))

IsDigit(ch) == ch \in Chars(Digits)

AllIn(s, class) == \A i \in 1..Len(s) : CharAt(s, i) \in class

\* s without an optional leading sign
Unsigned(s) == IF s # "" /\ CharAt(s, 1) \in {"+", "-"} THEN SubSeq(s, 2, Len(s)) ELSE s

\* DecimalDigits [. DecimalDigits] or . DecimalDigits, without exponent
IsMantissa(m) ==
    LET dots == { i \in 1..Len(m) : CharAt(m, i) = "." } IN
    /\ Cardinality(dots) <= 1
    /\ AllIn(m, Chars(Digits) \cup {"."})
    /\ \E i \in 1..Len(m) : IsDigit(CharAt(m, i))

\* ExponentPart: e or E, an optional sign, digits
IsExponent(e) ==
    /\ Len(e) >= 2
    /\ CharAt(e, 1) \in {"e", "E"}
    /\ Unsigned(SubSeq(e, 2, Len(e))) # ""
    /\ AllIn(Unsigned(SubSeq(e, 2, Len(e))), Chars(Digits))

\* StrUnsignedDecimalLiteral of the ToNumber grammar
IsUnsignedDecimalLiteral(u) ==
    LET es == { i \in 1..Len(u) : CharAt(u, i) \in {"e", "E"} }
        at == IF es = {} THEN Len(u) + 1 ELSE CHOOSE i \in es : \A j \in es : i <= j
    IN  \/ u = "Infinity"
        \/ /\ IsMantissa(SubSeq(u, 1, at - 1))
           /\ at <= Len(u) => IsExponent(SubSeq(u, at, Len(u)))

\* 0x, 0o and 0b integers of the ToNumber grammar
IsNonDecimalIntegerLiteral(t) ==
    /\ Len(t) >= 3
    /\ CharAt(t, 1) = "0"
    /\ LET body == SubSeq(t, 3, Len(t)) IN
       \/ CharAt(t, 2) \in {"x", "X"} /\ AllIn(body, Chars(Digits) \cup Chars("abcdefABCDEF"))
       \/ CharAt(t, 2) \in {"o", "O"} /\ AllIn(body, Chars("01234567"))
       \/ CharAt(t, 2) \in {"b", "B"} /\ AllIn(body, Chars("01"))

\* isNaN(s) for a string: Number(s) is NaN (white space around is ignored, '' is 0)
isNaNOfString(s) ==
    LET t == trim(s) IN
    ~(\/ t = ""
      \/ IsUnsignedDecimalLiteral(Unsigned(t))
      \/ IsNonDecimalIntegerLiteral(t))

\* isNaN(parseFloat(s)): no prefix of s is a decimal literal
parseFloatIsNaN(s) ==
    LET u == Unsigned(trimStart(s)) IN
    ~(\/ u # "" /\ IsDigit(CharAt(u, 1))
      \/ Len(u) >= 2 /\ CharAt(u, 1) = "." /\ IsDigit(CharAt(u, 2))
      \/ Len(u) >= 8 /\ SubSeq(u, 1, 8) = "Infinity")

includes(s, part) == \E i \in 1..(Len(s) - Len(part) + 1) : SubSeq(s, i, i + Len(part) - 1) = part

\* s matches shape position by position: d a digit, any other character itself
MatchesShape(s, shape) ==
    /\ Len(s) = Len(shape)
    /\ \A i \in 1..Len(shape) :
        IF CharAt(shape, i) = "d" THEN IsDigit(CharAt(s, i)) ELSE CharAt(s, i) = CharAt(shape, i)

\* /^\d{4}-\d{2}-\d{2}$/
isDate(value) == MatchesShape(value, "dddd-dd-dd")

\* /^\d{4}-\d{2}-\d{2}[T ]\d{2}:\d{2}:\d{2}/
isDateTime(value) ==
    /\ Len(value) >= 19
    /\ \/ MatchesShape(SubSeq(value, 1, 19), "dddd-dd-ddTdd:dd:dd")
       \/ MatchesShape(SubSeq(value, 1, 19), "dddd-dd-dd dd:dd:dd")

\* faulty variant: the length rule is tried before the numeric rule
inferTypeLengthFirst(value) ==
    IF value.type \in {"null", "undefined"} THEN "string"
    ELSE LET strValue == trim(value.text) IN
         IF strValue = "true" \/ strValue = "false" THEN "boolean"
         ELSE IF Len(strValue) > 255 THEN "text"
         ELSE IF ~isNaNOfString(strValue) /\ ~parseFloatIsNaN(strValue)
              THEN (IF includes(strValue, ".") THEN "decimal" ELSE "integer")
         ELSE IF isDate(strValue) THEN "date"
         ELSE IF isDateTime(strValue) THEN "timestamp"
         ELSE "string"

inferType(value) ==
    IF value.type \in {"null", "undefined"} THEN "string"
    ELSE LET strValue == trim(value.text) IN
         IF strValue = "true" \/ strValue = "false" THEN "boolean"
         ELSE IF ~isNaNOfString(strValue) /\ ~parseFloatIsNaN(strValue)
              THEN (IF includes(strValue, ".") THEN "decimal" ELSE "integer")
         ELSE IF isDate(strValue) THEN "date"
         ELSE IF isDateTime(strValue) THEN "timestamp"
         ELSE IF Len(strValue) > 255 THEN "text"
         ELSE "string"

\* String.prototype.split(sep) for a separator of one character
RECURSIVE split(_, _)
split(s, sep) ==
    LET hits == { i \in 1..Len(s) : CharAt(s, i) = sep } IN
    IF hits = {} THEN <<s>>
    ELSE LET at == CHOOSE i \in hits : \A j \in hits : i <= j
         IN  <<SubSeq(s, 1, at - 1)>> \o split(SubSeq(s, at + 1, Len(s)), sep)

Range(f) == { f[i] : i \in DOMAIN f }

\* faulty variant: the sample row is never read
analyzeCSVHeadersOnly(content) ==
    LET lines == SelectSeq(split(content, "\n"), LAMBDA line : trim(line) # "") IN
    IF Len(lines) = 0 THEN JsNull
    ELSE LET parts == split(lines[1], ",")
             names == [i \in 1..Len(parts) |-> sanitizeFieldName(trim(parts[i]))]
         IN  [n \in Range(names) |-> [type |-> "string", required |-> FALSE]]

\* analyzeCSV(content): null, or the object fields (property name to descriptor)
analyzeCSV(content) ==
    LET lines == SelectSeq(split(content, "\n"), LAMBDA line : trim(line) # "") IN
    IF Len(lines) = 0 THEN JsNull
    ELSE LET parts == split(lines[1], ",")
             headers == [i \in 1..Len(parts) |-> trim(parts[i])]
             names == [i \in 1..Len(headers) |-> sanitizeFieldName(headers[i])]
             initial == [n \in Range(names) |-> [type |-> "string", required |-> FALSE]]
             sampleRow == split(lines[2], ",")
             value(index) == IF index <= Len(sampleRow)
                             THEN StrDefault(trim(sampleRow[index]))
                             ELSE JsUndefined
             RECURSIVE refine(_, _)
             refine(fields, index) ==
                IF index > Len(headers) THEN fields
                ELSE refine([fields EXCEPT ![names[index]].type = inferType(value(index))],
                            index + 1)
         IN  IF Len(lines) > 1 THEN refine(initial, 1) ELSE initial

\* parsed JSON values: objects hold their entries in source order
JsObject(entries) == [type |-> "object", entries |-> entries]

JsArray(items) == [type |-> "array", items |-> items]

Entry(key, value) == [key |-> key, value |-> value]

\* faulty variant: the test of depth is missing, every level of the tree is descended into
RECURSIVE inferStructureFromObjectUncapped(_, _)
inferStructureFromObjectUncapped(obj, depth) ==
    IF obj.type = "array"
    THEN IF Len(obj.items) > 0
         THEN inferStructureFromObjectUncapped(obj.items[1], depth + 1)
         ELSE JsNull
    ELSE IF obj.type = "object"
         THEN LET fieldName(i) == sanitizeFieldName(obj.entries[i].key)
                  descriptor(i) ==
                    LET value == obj.entries[i].value IN
                    IF value.type = "array"
                    THEN [type |-> "relation",
                          relatedTable |-> fieldName(i),
                          childStructure |->
                            IF Len(value.items) > 0
                            THEN inferStructureFromObjectUncapped(value.items[1], depth + 1)
                            ELSE JsNull]
                    ELSE IF value.type = "object"
                         THEN [type |-> "json", required |-> FALSE]
                         ELSE [type |-> inferType(value), required |-> FALSE]
                  last(name) == CHOOSE i \in 1..Len(obj.entries) :
                                    /\ fieldName(i) = name
                                    /\ \A j \in (i + 1)..Len(obj.entries) : fieldName(j) # name
              IN  [name \in { fieldName(i) : i \in 1..Len(obj.entries) } |-> descriptor(last(name))]
    ELSE EmptyObject

\* inferStructureFromObject(obj, depth): null, or the object structure
RECURSIVE inferStructureFromObject(_, _)
inferStructureFromObject(obj, depth) ==
    IF depth > 3 THEN JsNull
    ELSE IF obj.type = "array"
         THEN IF Len(obj.items) > 0
              THEN inferStructureFromObject(obj.items[1], depth + 1)
              ELSE JsNull
    ELSE IF obj.type = "object"
         THEN LET fieldName(i) == sanitizeFieldName(obj.entries[i].key)
                  descriptor(i) ==
                    LET value == obj.entries[i].value IN
                    IF value.type = "array"
                    THEN [type |-> "relation",
                          relatedTable |-> fieldName(i),
                          childStructure |->
                            IF Len(value.items) > 0
                            THEN inferStructureFromObject(value.items[1], depth + 1)
                            ELSE JsNull]
                    ELSE IF value.type = "object"
                         THEN [type |-> "json", required |-> FALSE]
                         ELSE [type |-> inferType(value), required |-> FALSE]
                  last(name) == CHOOSE i \in 1..Len(obj.entries) :
                                    /\ fieldName(i) = name
                                    /\ \A j \in (i + 1)..Len(obj.entries) : fieldName(j) # name
              IN  [name \in { fieldName(i) : i \in 1..Len(obj.entries) } |-> descriptor(last(name))]
    ELSE EmptyObject

\* the JSON texts of the model and the value JSON.parse returns for each; no other
\* text of the model is JSON
JsonDocuments ==
    [text \in { "{\"Title\": \"Hello\", \"views\": 42}",
                "[{\"name\": \"Ann\", \"tags\": [\"a\"], \"address\": {\"city\": \"Rome\"}}]",
                "[]" } |->
        CASE text = "{\"Title\": \"Hello\", \"views\": 42}" ->
                JsObject(<<Entry("Title", StrDefault("Hello")), Entry("views", NumDefault("42"))>>)
          [] text = "[]" -> JsArray(<<>>)
          [] OTHER ->
                JsArray(<<JsObject(<<Entry("name", StrDefault("Ann")),
                                     Entry("tags", JsArray(<<StrDefault("a")>>)),
                                     Entry("address",
                                           JsObject(<<Entry("city", StrDefault("Rome"))>>))>>)>>)]

\* JSON.parse(content) throws a SyntaxError
JSONparseThrows(content) == content \notin DOMAIN JsonDocuments

\* analyzeJSON(content): the parse error is caught and null returned
analyzeJSON(content) ==
    IF JSONparseThrows(content) THEN JsNull
    ELSE inferStructureFromObject(JsonDocuments[content], 0)

\* the class \w
IsWordChar(ch) == ch \in Chars(LowerCase) \cup Chars(UpperCase) \cup Chars(Digits) \cup {"_"}

\* the end of the run of \w characters that follows position i
WordEnd(s, i) ==
    CHOOSE j \in i..Len(s) :
        /\ \A k \in (i + 1)..j : IsWordChar(CharAt(s, k))
        /\ j = Len(s) \/ ~IsWordChar(CharAt(s, j + 1))

\* the first '<' at or after position from, or Len(s) + 1
NextOpen(s, from) ==
    LET opens == { k \in from..Len(s) : CharAt(s, k) = "<" } IN
    IF opens = {} THEN Len(s) + 1 ELSE CHOOSE k \in opens : \A l \in opens : k <= l

\* /<(\w+)>([^<]*)<\/\1>/ matches at position i of s
xmlMatchesAt(s, i) ==
    /\ CharAt(s, i) = "<"
    /\ LET j == WordEnd(s, i)
           name == SubSeq(s, i + 1, j)
           k == NextOpen(s, j + 2)
           close == "</" \o name \o ">"
       IN  /\ j > i
           /\ j < Len(s) /\ CharAt(s, j + 1) = ">"
           /\ k + Len(close) - 1 <= Len(s)
           /\ SubSeq(s, k, k + Len(close) - 1) = close

\* the match at position i: the tag name, the text between the tags, the last position
xmlMatchAt(s, i) ==
    LET j == WordEnd(s, i)
        k == NextOpen(s, j + 2)
    IN  [name |-> SubSeq(s, i + 1, j), value |-> SubSeq(s, j + 2, k - 1),
         end |-> k + (j - i) + 2]

\* tagPattern.exec in a loop: the matches from left to right, none overlapping
RECURSIVE xmlMatches(_, _)
xmlMatches(s, from) ==
    IF from > Len(s) THEN <<>>
    ELSE IF xmlMatchesAt(s, from)
         THEN <<xmlMatchAt(s, from)>> \o xmlMatches(s, xmlMatchAt(s, from).end + 1)
         ELSE xmlMatches(s, from + 1)

\* analyzeXML(content): the first occurrence of a tag name decides its type
analyzeXML(content) ==
    LET matches == xmlMatches(content, 1)
        fieldName(i) == sanitizeFieldName(matches[i].name)
        first(name) == CHOOSE i \in 1..Len(matches) :
                            /\ fieldName(i) = name
                            /\ \A j \in 1..(i - 1) : fieldName(j) # name
    IN  [name \in { fieldName(i) : i \in 1..Len(matches) } |->
            [type |-> inferType(StrDefault(matches[first(name)].value)), required |-> FALSE]]

\* /\d{4}-\d{2}-\d{2}/.test(content)
containsDate(content) ==
    \E i \in 1..(Len(content) - 9) : MatchesShape(SubSeq(content, i, i + 9), "dddd-dd-dd")

analyzeText(content) ==
    [title |-> [type |-> "string", required |-> TRUE],
     content |-> [type |-> "text", required |-> TRUE],
     excerpt |-> [type |-> "text", required |-> FALSE]]
    @@ (IF includes(content, "@") /\ includes(content, ".")
        THEN [author_email |-> [type |-> "string", required |-> FALSE]]
        ELSE EmptyObject)
    @@ (IF containsDate(content)
        THEN [published_date |-> [type |-> "date", required |-> FALSE]]
        ELSE EmptyObject)

--------------------------------------------------------------------------
(* Inputs                                                                  *)

\* generator instances and invocations of generateFromFiles; "srv" are the
\* instance and the invocation the HTTP handler makes
DirectGens == {"g1", "g2"}

Gens == DirectGens \cup {"srv"}

DirectCalls == {"c1", "c2"}

Calls == DirectCalls \cup {"srv"}

WebsiteTypes == {"blog", "portfolio", "ecommerce", "documentation", "corporate", "custom", "forum"}

DatabaseTypes == {"mysql", "postgresql", "sqlite", "mongodb", "oracle"}

\* every configuration record: each recognised key is set or unset
Configs ==
    { w @@ p @@ m @@ i @@ d @@ n :
        w \in {EmptyObject} \cup {[websiteType |-> x] : x \in WebsiteTypes},
        p \in {EmptyObject, [tablePrefix |-> ""], [tablePrefix |-> "wp_"]},
        m \in {EmptyObject, [includeMetadata |-> TRUE], [includeMetadata |-> FALSE]},
        i \in {EmptyObject, [includeImages |-> TRUE], [includeImages |-> FALSE]},
        d \in {EmptyObject} \cup {[databaseType |-> x] : x \in DatabaseTypes},
        n \in {EmptyObject, [projectName |-> "My Shop"]} }

\* the configurations under which whole generation runs are explored
RunConfigs ==
    { w @@ [tablePrefix |-> "wp_", includeMetadata |-> TRUE, includeImages |-> FALSE] @@ dn :
        w \in {EmptyObject, [websiteType |-> "ecommerce"]},
        dn \in { [projectName |-> "My Shop"],
                 [databaseType |-> "mongodb", projectName |-> "My Shop"],
                 [databaseType |-> "mongodb"] } }

\* fileInfo records a direct caller hands over, and the file system they name
FilePool ==
    { [path |-> "uploads/data.csv", originalName |-> "data.csv", extension |-> ".csv"],
      [path |-> "uploads/notes.json", originalName |-> "notes.json", extension |-> ".json"] }

DirectDisk == [path \in {"uploads/data.csv", "uploads/notes.json"} |->
                IF path = "uploads/data.csv" THEN "present" ELSE "absent"]

RECURSIVE SeqsUpTo(_, _)
SeqsUpTo(S, n) ==
    IF n = 0 THEN {<<>>}
    ELSE SeqsUpTo(S, n - 1) \cup { Append(q, x) : q \in { r \in SeqsUpTo(S, n - 1) : Len(r) = n - 1 }, x \in S }

FileLists == SeqsUpTo(FilePool, MaxFiles)

\* values of new Date().toISOString()
Clock == {"2026-01-01T00:00:00.000Z", "2026-01-02T00:00:00.000Z"}

\* app.js lines 23-25 and the page as it is loaded: nothing selected, the file method
\* chosen, the submit button enabled, progress and results hidden, nothing in flight;
\* sent counts the calls of fetch, alerts the calls of alert
InitialPage ==
    [inputMethod |-> "files", fileUploadHidden |-> FALSE,
     selectedFiles |-> <<>>, selectedDirectory |-> <<>>,
     submitDisabled |-> FALSE, progressHidden |-> TRUE, resultsHidden |-> TRUE,
     pc |-> "idle", sent |-> 0, alerts |-> 0]

--------------------------------------------------------------------------
(* SchemaGenerator: generateFromFiles                                      *)

NoCall == [pc |-> "none", gen |-> "none", files |-> <<>>, idx |-> 0,
           content |-> <<>>, commonFields |-> {},
             out |-> <<>>, error |-> ""]

\* fs.readFile(path, 'utf-8') resolves
readFileResolves(fs, path) == path \in DOMAIN fs /\ fs[path] # "absent"

\* what the files of the model hold, by path
FileText(path) ==
    CASE path \in {"uploads/data.csv", "uploads/files-1.CSV"} -> "name,age\nAlice,30"
      [] path \in {"uploads/notes.json", "uploads/files-2.json"} ->
            "{\"Title\": \"Hello\", \"views\": 42}"
      [] path = "uploads/broken.json" -> "{\"Title\": "
      [] path = "uploads/page.xml" -> "<page><title>Hi</title><hits>7</hits></page>"
      [] path = "uploads/files-4.md" -> "# Guide\nmail me@example.org"
      [] OTHER -> "Release notes of 2024-01-15"

\* analyzeContent(content, fileInfo): the analysis record of one file (fields stays {})
analyzeContent(content, fileInfo) ==
    [fields |-> EmptyObject,
     type |-> CASE fileInfo.extension = ".json" -> "structured"
                [] fileInfo.extension = ".csv" -> "tabular"
                [] fileInfo.extension = ".xml" -> "structured"
                [] fileInfo.extension \in {".md", ".txt"} -> "content"
                [] OTHER -> "document",
     hasMetadata |-> FALSE,
     structure |-> CASE fileInfo.extension = ".json" -> analyzeJSON(content)
                     [] fileInfo.extension = ".csv" -> analyzeCSV(content)
                     [] fileInfo.extension = ".xml" -> analyzeXML(content)
                     [] OTHER -> analyzeText(content)]

\* one iteration of the loop of analyzeFiles: the file is read and analysed and
\* pushed to analyzedData.content, or the failure is caught and logged
analyzeFile(fs, fileInfo, content) ==
    IF readFileResolves(fs, fileInfo.path)
    THEN Append(content, fileInfo @@ [analysis |-> analyzeContent(FileText(fileInfo.path), fileInfo)])
    ELSE content

\* the same iteration: Object.keys(analysis.fields) are added to analyzedData.commonFields
collectCommonFields(fs, fileInfo, commonFields) ==
    IF readFileResolves(fs, fileInfo.path)
    THEN commonFields \cup DOMAIN analyzeContent(FileText(fileInfo.path), fileInfo).fields
    ELSE commonFields

\* generateFromFiles(fileInfos) is called on instance g: runs up to the first await
GenerateFromFiles(c, g, fileInfos) ==
    /\ call[c].pc = "none"
    /\ call' = [call EXCEPT ![c] = [pc |-> "analyzing", gen |-> g, files |-> fileInfos,
                                    idx |-> 1, content |-> <<>>, commonFields |-> {},
             out |-> <<>>, error |-> ""]]
    /\ UNCHANGED <<cfg, tables, built, disk, req, hpc, cleanup, res, arg, ret, page>>

\* faulty variant: the loop of analyzeFiles has no try/catch, a failed read rejects the call
AnalyzeFileUncaught(c) ==
    /\ call[c].pc = "analyzing"
    /\ call[c].idx <= Len(call[c].files)
    /\ IF readFileResolves(disk, call[c].files[call[c].idx].path)
       THEN call' = [call EXCEPT ![c].content = analyzeFile(disk, call[c].files[call[c].idx], @),
                                 ![c].commonFields =
                                    collectCommonFields(disk, call[c].files[call[c].idx], @),
                                 ![c].idx = @ + 1]
       ELSE call' = [call EXCEPT ![c].pc = "rejected", ![c].error = "ENOENT"]
    /\ UNCHANGED <<cfg, tables, built, disk, req, hpc, cleanup, res, arg, ret, page>>

\* await fs.readFile(...) of the next file settles
AnalyzeFile(c) ==
    /\ call[c].pc = "analyzing"
    /\ call[c].idx <= Len(call[c].files)
    /\ call' = [call EXCEPT ![c].content = analyzeFile(disk, call[c].files[call[c].idx], @),
                            ![c].commonFields =
                                collectCommonFields(disk, call[c].files[call[c].idx], @),
                            ![c].idx = @ + 1]
    /\ UNCHANGED <<cfg, tables, built, disk, req, hpc, cleanup, res, arg, ret, page>>

\* the SchemaResult generateFromFiles returns
schemaResult(sql, tbls) ==
    [sql |-> sql, tables |-> tbls, totalFields |-> totalFields(tbls),
     metadata |-> EmptyObject, relationships |-> <<>>]

\* faulty variant: the error of the renderer is swallowed and a result without sql is returned
generateOutcomePartial(config, tbls, now) ==
    IF generateSQLThrows(config)
    THEN [pc |-> "returned", out |-> <<schemaResult(<<>>, tbls)>>, error |-> ""]
    ELSE [pc |-> "returned", out |-> <<schemaResult(generateSQL(config, tbls, now), tbls)>>,
          error |-> ""]

\* lines 22-30 of generateFromFiles: generateSQL throws, or the result is returned
generateOutcome(config, tbls, now) ==
    IF generateSQLThrows(config)
    THEN [pc |-> "rejected", out |-> <<>>, error |-> "TypeError"]
    ELSE [pc |-> "returned", out |-> <<schemaResult(generateSQL(config, tbls, now), tbls)>>,
          error |-> ""]

\* one table per analysed file, as a builder that consumed analyzedData would add
discoveredTables(config, content) ==
    [i \in 1..Len(content) |->
        [name |-> tableName(config, content[i].originalName),
         fields |-> <<[name |-> "id", type |-> "integer", required |-> TRUE,
                       primaryKey |-> TRUE, autoIncrement |-> TRUE]>>]]

\* faulty variant: generateStructure reads analyzedData and adds what the files held
GenerateAndReturnMerging(c) ==
    LET g == call[c].gen
        tbls == generateStructure(cfg[g], tables[g]) \o discoveredTables(cfg[g], call[c].content)
    IN  /\ call[c].pc = "analyzing"
        /\ call[c].idx > Len(call[c].files)
        /\ tables' = [tables EXCEPT ![g] = tbls]
        /\ built' = [built EXCEPT ![g] = @ + 1]
        /\ \E now \in Clock :
            LET outcome == generateOutcome(cfg[g], tbls, now) IN
            call' = [call EXCEPT ![c].pc = outcome.pc, ![c].out = outcome.out,
                                 ![c].error = outcome.error]
        /\ UNCHANGED <<cfg, disk, req, hpc, cleanup, res, arg, ret, page>>

\* analyzeFiles has returned: generateStructure, generateSQL, and the return or the throw
GenerateAndReturn(c) ==
    LET g == call[c].gen
        tbls == generateStructure(cfg[g], tables[g])
    IN  /\ call[c].pc = "analyzing"
        /\ call[c].idx > Len(call[c].files)
        /\ tables' = [tables EXCEPT ![g] = tbls]
        /\ built' = [built EXCEPT ![g] = @ + 1]
        /\ \E now \in Clock :
            LET outcome == generateOutcome(cfg[g], tbls, now) IN
            call' = [call EXCEPT ![c].pc = outcome.pc, ![c].out = outcome.out,
                                 ![c].error = outcome.error]
        /\ UNCHANGED <<cfg, disk, req, hpc, cleanup, res, arg, ret, page>>

\* generateStructure invoked on instance g by itself
BuildStructure(g) ==
    /\ built[g] < MaxBuilds
    /\ tables' = [tables EXCEPT ![g] = generateStructure(cfg[g], @)]
    /\ built' = [built EXCEPT ![g] = @ + 1]
    /\ UNCHANGED <<cfg, call, disk, req, hpc, cleanup, res, arg, ret, page>>

NoRequest == [body |-> EmptyObject, files |-> <<>>, hasFiles |-> FALSE]

NoResponse == [status |-> 0, body |-> EmptyObject]

\* no function has been applied by itself
NoArg == [fn |-> "none"]

NoRet == [kind |-> "none"]

\* two instances constructed with the same configuration, nothing called yet
InitWith(configs) ==
    /\ \E config \in configs : cfg = [g \in Gens |-> IF g \in DirectGens THEN config ELSE EmptyObject]
    /\ tables = [g \in Gens |-> <<>>]
    /\ built = [g \in Gens |-> 0]
    /\ call = [c \in Calls |-> NoCall]
    /\ disk = DirectDisk
    /\ req = NoRequest
    /\ hpc = "idle"
    /\ cleanup = <<>>
    /\ res = NoResponse
    /\ arg = NoArg
    /\ ret = NoRet
    /\ page = InitialPage

Init == InitWith(RunConfigs)

Next ==
    \E c \in DirectCalls :
        \/ \E g \in DirectGens, fileInfos \in FileLists : GenerateFromFiles(c, g, fileInfos)
        \/ AnalyzeFile(c)
        \/ GenerateAndReturn(c)

\* generation runs on two instances
Spec == Init /\ [][Next]_vars

InitStructure == InitWith(Configs)

NextStructure == \E g \in DirectGens : BuildStructure(g)

\* the domain template builder and the feature augmenters, for every configuration
SpecStructure == InitStructure /\ [][NextStructure]_vars

\* the configurations rendered: every tag, prefix, dialect and project name, each
\* feature flag unset or on
RenderConfigs ==
    { w @@ p @@ m @@ i @@ d @@ n :
        w \in {EmptyObject} \cup {[websiteType |-> x] : x \in WebsiteTypes},
        p \in {EmptyObject, [tablePrefix |-> ""], [tablePrefix |-> "wp_"]},
        m \in {EmptyObject, [includeMetadata |-> TRUE]},
        i \in {EmptyObject, [includeImages |-> TRUE]},
        d \in {EmptyObject} \cup {[databaseType |-> x] : x \in DatabaseTypes},
        n \in {EmptyObject, [projectName |-> "My Shop"]} }

InitRender == InitWith(RenderConfigs)

NextRender ==
    \E c \in DirectCalls :
        \/ GenerateFromFiles(c, "g1", <<>>)
        \/ GenerateAndReturn(c)

\* every configuration rendered, once and again, on one instance without files
SpecRender == InitRender /\ [][NextRender]_vars

\* fileInfo records of every analysed kind, one of them a .json file that does not parse
AnalyzePool ==
    { [path |-> "uploads/data.csv", originalName |-> "data.csv", extension |-> ".csv"],
      [path |-> "uploads/notes.json", originalName |-> "notes.json", extension |-> ".json"],
      [path |-> "uploads/broken.json", originalName |-> "broken.json", extension |-> ".json"],
      [path |-> "uploads/page.xml", originalName |-> "page.xml", extension |-> ".xml"] }

AnalyzeLists == SeqsUpTo(AnalyzePool, MaxFiles)

\* one instance, every file of the pool readable or missing
InitAnalyze ==
    /\ \E config \in {EmptyObject, [tablePrefix |-> "wp_", databaseType |-> "postgresql"]} :
            cfg = [g \in Gens |-> IF g \in DirectGens THEN config ELSE EmptyObject]
    /\ tables = [g \in Gens |-> <<>>]
    /\ built = [g \in Gens |-> 0]
    /\ call = [c \in Calls |-> NoCall]
    /\ disk \in [{ f.path : f \in AnalyzePool } -> {"present", "absent"}]
    /\ req = NoRequest
    /\ hpc = "idle"
    /\ cleanup = <<>>
    /\ res = NoResponse
    /\ arg = NoArg
    /\ ret = NoRet
    /\ page = InitialPage

NextAnalyze ==
    \/ \E fileInfos \in AnalyzeLists : GenerateFromFiles("c1", "g1", fileInfos)
    \/ AnalyzeFile("c1")
    \/ GenerateAndReturn("c1")

\* one run of generateFromFiles over files of every analysed kind
SpecAnalyze == InitAnalyze /\ [][NextAnalyze]_vars

\* addMetadataTables() invoked on instance g by itself
AddMetadataTables(g) ==
    /\ Len(tables[g]) < MaxAppends
    /\ tables' = [tables EXCEPT ![g] = addMetadataTables(cfg[g], @)]
    /\ arg' = [fn |-> "addMetadataTables", gen |-> g]
    /\ UNCHANGED <<cfg, built, call, disk, req, hpc, cleanup, res, ret, page>>

\* addMediaTables() invoked on instance g by itself
AddMediaTables(g) ==
    /\ Len(tables[g]) < MaxAppends
    /\ tables' = [tables EXCEPT ![g] = addMediaTables(cfg[g], @)]
    /\ arg' = [fn |-> "addMediaTables", gen |-> g]
    /\ UNCHANGED <<cfg, built, call, disk, req, hpc, cleanup, res, ret, page>>

InitAugment ==
    InitWith({EmptyObject, [tablePrefix |-> ""], [tablePrefix |-> "wp_"],
              [tablePrefix |-> "wp_", includeMetadata |-> TRUE, includeImages |-> TRUE]})

NextAugment ==
    \E g \in DirectGens :
        \/ AddMetadataTables(g)
        \/ AddMediaTables(g)

\* the two feature augmenters, applied in any order and any number of times
SpecAugment == InitAugment /\ [][NextAugment]_vars

--------------------------------------------------------------------------
(* sanitizeFieldName, inferType and analyzeCSV, each applied by itself     *)

RECURSIVE StringsUpTo(_, _)
StringsUpTo(alphabet, n) ==
    IF n = 0 THEN {""}
    ELSE LET shorter == StringsUpTo(alphabet, n - 1)
         IN  shorter \cup { t \o ch : t \in { u \in shorter : Len(u) = n - 1 }, ch \in alphabet }

RECURSIVE Repeat(_, _)
Repeat(s, n) ==
    IF n = 0 THEN ""
    ELSE LET half == Repeat(s, n \div 2)
         IN  half \o half \o (IF n % 2 = 1 THEN s ELSE "")

\* raw values: every short string over digits, point, sign, exponent, x and blank, and
\* longer ones of each kind
ValueTexts ==
    StringsUpTo({"0", "1", ".", "-", "e", "x", " "}, MaxValueLen)
    \cup { "true", "false", "TRUE", "True", " true ", "truefalse", "hello", "42", " 42 ",
           "3.14", "+1.5", "1.5e3", "1e+5", "12abc", "1,000", "1_000", "Infinity",
           "-Infinity", "0x1A", "0b11", "0o17", "1.2.3", "2024-01-15", "2024-1-15",
           "2024-01-15T10:00:00", "2024-01-15 10:00:00.123Z", "2024-01-15X10:00:00",
           "2024-01-15T10:00", "20240115", "2024-01-15 ",
           Repeat("a", 255), Repeat("a", 256), Repeat("7", 256),
           "1." \o Repeat("7", 254), "2024-01-15T10:00:00" \o Repeat("z", 240) }

ValueInputs == {JsNull, JsUndefined} \cup { StrDefault(t) : t \in ValueTexts }

\* source keys and headers: letters of both cases, a digit, underscore, blank, dash
NameInputs == StringsUpTo({"a", "B", "1", "_", " ", "-"}, MaxNameLen)

Others == <<cfg, tables, built, call, disk, req, hpc, cleanup, res, page>>

\* sanitizeFieldName(name) is called
SanitizeFieldName ==
    /\ arg.fn = "none"
    /\ \E name \in NameInputs :
        /\ arg' = [fn |-> "sanitizeFieldName", value |-> name, first |-> <<>>]
        /\ ret' = [kind |-> "value", value |-> sanitizeFieldName(name)]
    /\ UNCHANGED Others

\* sanitizeFieldName is called on what it returned
SanitizeAgain ==
    /\ arg.fn = "sanitizeFieldName"
    /\ arg.first = <<>>
    /\ arg' = [fn |-> "sanitizeFieldName", value |-> ret.value, first |-> <<arg.value>>]
    /\ ret' = [kind |-> "value", value |-> sanitizeFieldName(ret.value)]
    /\ UNCHANGED Others

\* lines a CSV content is made of
CsvLines ==
    { "", "  ", "name,age", "Alice,30", "a,A ,b", "1,x", "Full Name, e-mail\r",
      "2024-01-15,true, 3.5 ,z", "," }

RECURSIVE JoinWith(_, _)
JoinWith(items, sep) ==
    IF Len(items) = 0 THEN ""
    ELSE IF Len(items) = 1 THEN items[1]
    ELSE items[1] \o sep \o JoinWith(Tail(items), sep)

CsvInputs == { JoinWith(ls, "\n") : ls \in SeqsUpTo(CsvLines, MaxCsvLines) }

\* analyzeCSV(content) is called
AnalyzeCSV ==
    /\ arg.fn = "none"
    /\ \E content \in CsvInputs :
        /\ arg' = [fn |-> "analyzeCSV", value |-> content]
        /\ ret' = [kind |-> "value", value |-> analyzeCSV(content)]
    /\ UNCHANGED Others

\* inferType(value) is called
InferType ==
    /\ arg.fn = "none"
    /\ \E value \in ValueInputs :
        /\ arg' = [fn |-> "inferType", value |-> value]
        /\ ret' = [kind |-> "value", value |-> inferType(value)]
    /\ UNCHANGED Others

\* parsed JSON trees: a leaf wrapped up to MaxJsonDepth times in a two-element array, an
\* object holding it under a key, or an object holding a two-element array of it
RECURSIVE JsonTrees(_)
JsonTrees(n) ==
    IF n = 0 THEN {StrDefault("a"), JsArray(<<>>), JsObject(<<>>)}
    ELSE LET inner == JsonTrees(n - 1)
             deepest == { t \in inner : n = 1 \/ t \notin JsonTrees(n - 2) }
         IN  inner
             \cup { JsArray(<<t, JsObject(<<Entry("other", NumDefault("1"))>>)>>) : t \in deepest }
             \cup { JsObject(<<Entry("Meta Data", t), Entry("n", NumDefault("1"))>>) : t \in deepest }
             \cup { JsObject(<<Entry("items", JsArray(<<t, StrDefault("z")>>))>>) : t \in deepest }

JsonInputs == JsonTrees(MaxJsonDepth)

\* inferStructureFromObject(obj) is called, depth defaults to 0
InferStructureFromObject ==
    /\ arg.fn = "none"
    /\ \E obj \in JsonInputs :
        /\ arg' = [fn |-> "inferStructureFromObject", value |-> obj]
        /\ ret' = [kind |-> "value", value |-> inferStructureFromObject(obj, 0)]
    /\ UNCHANGED Others

\* the field types the catalog and the analysers produce, and two that nothing maps
FieldTypes ==
    {"integer", "string", "text", "boolean", "date", "timestamp", "decimal",
     "json", "relation", "unknown"}

\* fields handed to the type mappers: every type, with and without length, precision, scale
FieldInputs ==
    { [name |-> "f", type |-> t] @@ l @@ p @@ sc :
        t \in FieldTypes,
        l \in {EmptyObject, [length |-> 0], [length |-> 50]},
        p \in {EmptyObject, [precision |-> 8]},
        sc \in {EmptyObject, [scale |-> 0], [scale |-> 4]} }

\* mapTypeToMySQL(field), mapTypeToPostgreSQL(field), mapTypeToSQLite(field) or
\* mapTypeToMongo(field.type) is called
MapType ==
    /\ arg.fn = "none"
    /\ \E field \in FieldInputs, fn \in {"mapTypeToMySQL", "mapTypeToPostgreSQL",
                                         "mapTypeToSQLite", "mapTypeToMongo"} :
        /\ arg' = [fn |-> fn, value |-> field]
        /\ ret' = [kind |-> "value",
                   value |-> CASE fn = "mapTypeToMySQL" -> mapTypeToMySQL(field)
                               [] fn = "mapTypeToPostgreSQL" -> mapTypeToPostgreSQL(field)
                               [] fn = "mapTypeToSQLite" -> mapTypeToSQLite(field)
                               [] fn = "mapTypeToMongo" -> mapTypeToMongo(field.type)]
    /\ UNCHANGED Others

InitFunctions == InitWith({EmptyObject})

NextFunctions ==
    \/ SanitizeFieldName
    \/ SanitizeAgain
    \/ InferType
    \/ AnalyzeCSV
    \/ InferStructureFromObject
    \/ MapType

\* the functions of the generator, each applied to a bounded set of inputs
SpecFunctions == InitFunctions /\ [][NextFunctions]_vars

\* fields of every shape the renderers tell apart: identity keys, keys of a composite
\* key, defaults of each kind of literal, unique, and no modifier at all
FieldPool ==
    { [name |-> "id", type |-> "integer", required |-> TRUE, primaryKey |-> TRUE,
       autoIncrement |-> TRUE],
      [name |-> "post_id", type |-> "integer", required |-> TRUE, primaryKey |-> TRUE],
      [name |-> "tag_id", type |-> "integer", required |-> TRUE, primaryKey |-> TRUE,
       default |-> NumDefault("0")],
      [name |-> "status", type |-> "string", required |-> TRUE, default |-> StrDefault("draft"),
       length |-> 20, unique |-> TRUE],
      [name |-> "featured", type |-> "boolean", required |-> FALSE,
       default |-> BoolDefault("false")],
      [name |-> "seq", type |-> "integer", required |-> TRUE, primaryKey |-> TRUE,
       autoIncrement |-> TRUE, default |-> NumDefault("1"), unique |-> TRUE],
      [name |-> "note", type |-> "string", required |-> FALSE, default |-> StrDefault("it's")],
      [name |-> "created_at", type |-> "timestamp", required |-> TRUE] }

\* tables of up to MaxFields fields of the pool, no field twice
TableInputs ==
    { [name |-> "wp_items", fields |-> fs] :
        fs \in { q \in SeqsUpTo(FieldPool, MaxFields) :
                    \A i, j \in 1..Len(q) : q[i] = q[j] => i = j } }

\* the callback a renderer runs for each table: the lines it adds to the text
renderTable(dialect, table) ==
    CASE dialect = "mysql" -> mysqlTable(table)
      [] dialect = "postgresql" -> postgresTable(table)
      [] dialect = "sqlite" -> sqliteTable(table)
      [] dialect = "mongodb" -> mongoCollectionLines(mongoCollection(table), "")

\* one renderer writes the block of one table
RenderTable ==
    /\ arg.fn = "none"
    /\ \E table \in TableInputs, dialect \in {"mysql", "postgresql", "sqlite", "mongodb"} :
        /\ arg' = [fn |-> "renderTable", dialect |-> dialect, value |-> table]
        /\ ret' = [kind |-> "value", value |-> renderTable(dialect, table)]
    /\ UNCHANGED Others

InitTables == InitWith({EmptyObject})

NextTables == RenderTable

\* every renderer applied to tables of every mix of field modifiers
SpecTables == InitTables /\ [][NextTables]_vars

--------------------------------------------------------------------------
(* server.js: POST /api/generate-schema                                    *)

\* path.extname(name): from the last '.' on, '' without one or with only a leading one
extname(name) ==
    LET dots == { i \in 2..Len(name) : CharAt(name, i) = "." } IN
    IF dots = {} THEN ""
    ELSE SubSeq(name, CHOOSE i \in dots : \A j \in dots : j <= i, Len(name))

\* value || dflt for a body field that is a string when set
OrDefault(body, key, dflt) == IF Has(body, key) /\ body[key] # "" THEN body[key] ELSE dflt

\* req.body[key] === 'true'
IsTrueText(body, key) == Has(body, key) /\ body[key] = "true"

\* a key whose value is undefined counts as unset
Optional(body, key) == IF Has(body, key) THEN [k \in {key} |-> body[key]] ELSE EmptyObject

\* the configuration the handler extracts from req.body
extractConfig(body) ==
    [inputMethod |-> OrDefault(body, "inputMethod", "files"),
     databaseType |-> OrDefault(body, "databaseType", "mysql"),
     includeImages |-> IsTrueText(body, "includeImages"),
     includeMetadata |-> IsTrueText(body, "includeMetadata"),
     generateAPI |-> IsTrueText(body, "generateAPI"),
     autoRelations |-> IsTrueText(body, "autoRelations"),
     encoding |-> OrDefault(body, "encoding", "utf-8"),
     tablePrefix |-> OrDefault(body, "tablePrefix", ""),
     maxFileSize |-> 10]
    @@ Optional(body, "websiteType") @@ Optional(body, "projectName")

\* req.files.map(file => ({path, originalName, mimeType, size, extension}))
toFileInfos(files) ==
    [i \in 1..Len(files) |->
        [path |-> files[i].path, originalName |-> files[i].originalname,
         mimeType |-> files[i].mimetype, size |-> files[i].size,
         extension |-> toLowerCase(extname(files[i].originalname))]]

\* the files multer stored for one request, by position
Uploads ==
    << [path |-> "uploads/files-1.CSV", originalname |-> "Data.CSV", mimetype |-> "text/csv", size |-> 17],
       [path |-> "uploads/files-2.json", originalname |-> "notes.json", mimetype |-> "application/json", size |-> 2],
       [path |-> "uploads/files-3", originalname |-> "README", mimetype |-> "text/plain", size |-> 40],
       [path |-> "uploads/files-4.md", originalname |-> "guide.md", mimetype |-> "text/markdown", size |-> 8] >>

Bodies ==
    { w @@ n @@ d @@ m @@ p :
        w \in {EmptyObject, [websiteType |-> "blog"]},
        n \in {EmptyObject, [projectName |-> "My Shop"]},
        d \in {EmptyObject, [databaseType |-> "mongodb"], [databaseType |-> "sqlite"]},
        m \in {EmptyObject, [includeMetadata |-> "true"], [includeMetadata |-> "on"]},
        p \in {EmptyObject, [tablePrefix |-> "wp_"]} }

Requests ==
    { [body |-> b, hasFiles |-> FALSE, files |-> <<>>] : b \in Bodies }
    \cup { [body |-> b, hasFiles |-> TRUE, files |-> SubSeq(Uploads, 1, n)] :
            b \in Bodies, n \in 0..MaxFiles }

FilePaths(files) == { files[i].path : i \in 1..Len(files) }

\* cleanupFiles(files): files.map starts one unlink per file before anything is awaited
cleanupFiles(files) == [i \in 1..Len(files) |-> "pending"]

\* the synchronous start of the handler: validation, configuration, new SchemaGenerator,
\* generateFromFiles up to its first await
HandleRequest ==
    /\ hpc = "received"
    /\ IF ~req.hasFiles \/ Len(req.files) = 0
       THEN /\ res' = [status |-> 400,
                       body |-> [error |-> "No files uploaded",
                                 message |-> "Please upload at least one file"]]
            /\ hpc' = "done"
            /\ UNCHANGED <<cfg, tables, call>>
       ELSE /\ cfg' = [cfg EXCEPT !["srv"] = extractConfig(req.body)]
            /\ tables' = [tables EXCEPT !["srv"] = <<>>]
            /\ call' = [call EXCEPT !["srv"] =
                            [pc |-> "analyzing", gen |-> "srv", files |-> toFileInfos(req.files),
                             idx |-> 1, content |-> <<>>, commonFields |-> {},
             out |-> <<>>, error |-> ""]]
            /\ hpc' = "generating"
            /\ UNCHANGED res
    /\ UNCHANGED <<built, disk, req, cleanup, arg, ret, page>>

\* faulty variant: the catch block answers without calling cleanupFiles
StartCleanupOnSuccessOnly ==
    /\ hpc = "generating"
    /\ call["srv"].pc \in {"returned", "rejected"}
    /\ cleanup' = IF call["srv"].pc = "returned" THEN cleanupFiles(req.files) ELSE cleanup
    /\ hpc' = IF call["srv"].pc = "returned" THEN "cleanup" ELSE "cleanup_failed"
    /\ UNCHANGED <<cfg, tables, built, call, disk, req, res, arg, ret, page>>

\* generateFromFiles has settled: cleanupFiles is called, on the success path or in the catch
StartCleanup ==
    /\ hpc = "generating"
    /\ call["srv"].pc \in {"returned", "rejected"}
    /\ cleanup' = cleanupFiles(req.files)
    /\ hpc' = IF call["srv"].pc = "returned" THEN "cleanup" ELSE "cleanup_failed"
    /\ UNCHANGED <<cfg, tables, built, call, disk, req, res, arg, ret, page>>

\* one fs.unlink settles: the file is removed, or the failure is caught and logged
UnlinkSettles(i) ==
    /\ hpc \in {"cleanup", "cleanup_failed"}
    /\ i \in 1..Len(cleanup)
    /\ cleanup[i] = "pending"
    /\ IF disk[req.files[i].path] = "present"
       THEN /\ disk' = [disk EXCEPT ![req.files[i].path] = "absent"]
            /\ cleanup' = [cleanup EXCEPT ![i] = "removed"]
       ELSE /\ cleanup' = [cleanup EXCEPT ![i] = "failed"]
            /\ UNCHANGED disk
    /\ UNCHANGED <<cfg, tables, built, call, req, hpc, res, arg, ret, page>>

successBody(config, schema, now) ==
    [success |-> TRUE, databaseType |-> config.databaseType, schema |-> schema.sql,
     tables |-> schema.tables, totalFields |-> schema.totalFields,
     metadata |-> schema.metadata, timestamp |-> now]
    @@ Optional(config, "projectName")

errorBody(error) ==
    [error |-> "Schema generation failed", message |-> error]

\* await Promise.all(cleanupPromises) is over: the response is sent
Respond ==
    /\ hpc \in {"cleanup", "cleanup_failed"}
    /\ \A i \in 1..Len(cleanup) : cleanup[i] # "pending"
    /\ IF hpc = "cleanup"
       THEN \E now \in Clock :
                res' = [status |-> 200,
                        body |-> successBody(cfg["srv"], call["srv"].out[1], now)]
       ELSE res' = [status |-> 500, body |-> errorBody(call["srv"].error)]
    /\ hpc' = "done"
    /\ UNCHANGED <<cfg, tables, built, call, disk, req, cleanup, arg, ret, page>>

InitServer ==
    /\ cfg = [g \in Gens |-> EmptyObject]
    /\ tables = [g \in Gens |-> <<>>]
    /\ built = [g \in Gens |-> 0]
    /\ call = [c \in Calls |-> NoCall]
    /\ req \in Requests
    /\ disk \in [FilePaths(req.files) -> {"present", "locked", "absent"}]
    /\ hpc = "received"
    /\ cleanup = [i \in 1..Len(req.files) |-> "none"]
    /\ res = NoResponse
    /\ arg = NoArg
    /\ ret = NoRet
    /\ page = InitialPage

NextServer ==
    \/ HandleRequest
    \/ AnalyzeFile("srv")
    \/ GenerateAndReturn("srv")
    \/ StartCleanup
    \/ \E i \in 1..MaxFiles : UnlinkSettles(i)
    \/ Respond

\* one request handled by the server
SpecServer == InitServer /\ [][NextServer]_vars

--------------------------------------------------------------------------
(* app.js: the upload form in the browser                                  *)

\* File objects the user can pick or drop: name and size
BrowserFiles ==
    { [name |-> "data.csv", size |-> 10], [name |-> "data.csv", size |-> 20],
      [name |-> "Notes.JSON", size |-> 5], [name |-> "setup.exe", size |-> 7],
      [name |-> "csv", size |-> 3] }

\* what one pick or drop hands over: up to MaxPick files, the same file twice included
FileBatches == SeqsUpTo(BrowserFiles, MaxPick)

\* what the directory picker hands over: an empty directory or one with a file
DirectoryPicks == {<<>>, <<[name |-> "index.md", size |-> 4]>>}

\* file.name.split('.').pop().toLowerCase()
lastSegment(name) ==
    LET parts == split(name, ".") IN toLowerCase(parts[Len(parts)])

validExtensions == {"pdf", "doc", "docx", "txt", "json", "xml", "csv", "md"}

\* faulty variant: every valid file is pushed, files already selected included
addFilesNoDuplicateTest(selected, files) ==
    selected \o SelectSeq(files, LAMBDA file : lastSegment(file.name) \in validExtensions)

\* addFiles(files): selectedFiles after the filter and the forEach that pushes the files
\* not yet selected under the same name and size
RECURSIVE addFiles(_, _)
addFiles(selected, files) ==
    IF files = <<>> THEN selected
    ELSE LET file == files[1]
             valid == lastSegment(file.name) \in validExtensions
             some == \E i \in 1..Len(selected) :
                        selected[i].name = file.name /\ selected[i].size = file.size
         IN  addFiles(IF valid /\ ~some THEN Append(selected, file) ELSE selected, Tail(files))

\* Array.prototype.splice(index, 1)
splice(items, index) ==
    [i \in 1..(Len(items) - 1) |-> IF i < index THEN items[i] ELSE items[i + 1]]

\* handleFileSelect(e) or handleDrop(e): both hand the files of the event to addFiles;
\* the file input and the drop area are in the file upload section, the directory
\* section is shown exactly when that one is hidden
AddFiles(files) ==
    /\ ~page.fileUploadHidden
    /\ Len(page.selectedFiles) < MaxSelected
    /\ page' = [page EXCEPT !.selectedFiles = addFiles(@, files)]
    /\ UNCHANGED <<cfg, tables, built, call, disk, req, hpc, cleanup, res, arg, ret>>

\* removeFile(index), from the Remove button of an entry of the rendered list
RemoveFile(index) ==
    /\ ~page.fileUploadHidden
    /\ index \in 1..Len(page.selectedFiles)
    /\ page' = [page EXCEPT !.selectedFiles = splice(@, index)]
    /\ UNCHANGED <<cfg, tables, built, call, disk, req, hpc, cleanup, res, arg, ret>>

\* handleInputMethodChange(e): the change event of the radio that became checked
HandleInputMethodChange(method) ==
    /\ method # page.inputMethod
    /\ page' = IF method = "files"
               THEN [page EXCEPT !.inputMethod = method, !.fileUploadHidden = FALSE,
                                 !.selectedDirectory = <<>>]
               ELSE [page EXCEPT !.inputMethod = method, !.fileUploadHidden = TRUE,
                                 !.selectedFiles = <<>>]
    /\ UNCHANGED <<cfg, tables, built, call, disk, req, hpc, cleanup, res, arg, ret>>

\* handleDirectorySelect(e): a directory with no file in it changes nothing
HandleDirectorySelect(files) ==
    /\ page.fileUploadHidden
    /\ page' = IF Len(files) > 0
               THEN [page EXCEPT !.selectedDirectory = <<files>>]
               ELSE page
    /\ UNCHANGED <<cfg, tables, built, call, disk, req, hpc, cleanup, res, arg, ret>>

\* handleReset(): the radio buttons are not touched
HandleReset ==
    /\ page' = [page EXCEPT !.selectedFiles = <<>>, !.selectedDirectory = <<>>,
                            !.resultsHidden = TRUE, !.progressHidden = TRUE,
                            !.fileUploadHidden = FALSE]
    /\ UNCHANGED <<cfg, tables, built, call, disk, req, hpc, cleanup, res, arg, ret>>

\* the validation of handleFormSubmit lets the submission through
passesValidation(p) ==
    /\ ~(p.inputMethod = "files" /\ Len(p.selectedFiles) = 0)
    /\ ~(p.inputMethod = "directory" /\ p.selectedDirectory = <<>>)

\* faulty variant: the catch block hides the progress section and leaves the button alone
catchBlockButtonLeft(p) ==
    [p EXCEPT !.progressHidden = TRUE, !.pc = "idle"]

\* the catch block of handleFormSubmit
catchBlock(p) ==
    [p EXCEPT !.progressHidden = TRUE, !.submitDisabled = FALSE, !.pc = "idle"]

\* handleFormSubmit(e) up to its first await; a disabled submit button submits nothing
HandleFormSubmit ==
    /\ ~page.submitDisabled
    /\ page.sent + page.alerts < MaxSubmits
    /\ page' = IF passesValidation(page)
               THEN [page EXCEPT !.sent = @ + 1,
                                 !.progressHidden = FALSE, !.resultsHidden = TRUE,
                                 !.submitDisabled = TRUE, !.pc = "fetching"]
               ELSE [page EXCEPT !.alerts = @ + 1]
    /\ UNCHANGED <<cfg, tables, built, call, disk, req, hpc, cleanup, res, arg, ret>>

\* await fetch(...) settles: an OK response, a response that is not OK, or a rejection
FetchSettles(outcome) ==
    /\ page.pc = "fetching"
    /\ page' = IF outcome = "ok" THEN [page EXCEPT !.pc = "parsing"] ELSE catchBlock(page)
    /\ UNCHANGED <<cfg, tables, built, call, disk, req, hpc, cleanup, res, arg, ret>>

\* await response.json() settles: the body parses and the timer is set, or it rejects
JsonSettles(parsed) ==
    /\ page.pc = "parsing"
    /\ page' = IF parsed THEN [page EXCEPT !.pc = "timer"] ELSE catchBlock(page)
    /\ UNCHANGED <<cfg, tables, built, call, disk, req, hpc, cleanup, res, arg, ret>>

\* the callback of setTimeout(..., 500) runs: the results are shown
TimerFires ==
    /\ page.pc = "timer"
    /\ page' = [page EXCEPT !.resultsHidden = FALSE, !.progressHidden = TRUE,
                            !.submitDisabled = FALSE, !.pc = "idle"]
    /\ UNCHANGED <<cfg, tables, built, call, disk, req, hpc, cleanup, res, arg, ret>>

InitBrowser == InitWith({EmptyObject})

\* what the user does
UserActs ==
    \/ \E files \in FileBatches : AddFiles(files)
    \/ \E index \in 1..MaxSelected + MaxPick : RemoveFile(index)
    \/ \E method \in {"files", "directory"} : HandleInputMethodChange(method)
    \/ \E files \in DirectoryPicks : HandleDirectorySelect(files)
    \/ HandleReset
    \/ HandleFormSubmit

\* what the event loop runs once a promise has settled or the timer is due
Continues ==
    \/ \E outcome \in {"ok", "notOk", "failed"} : FetchSettles(outcome)
    \/ \E parsed \in BOOLEAN : JsonSettles(parsed)
    \/ TimerFires

NextBrowser == UserActs \/ Continues

\* the page in the browser
SpecBrowser == InitBrowser /\ [][NextBrowser]_vars

\* the request is answered or fails, and the event loop runs the continuation and the
\* timer callback that are due
SpecBrowserLive == SpecBrowser /\ WF_vars(Continues)

--------------------------------------------------------------------------
(* Properties                                                              *)

\* the five tags the switch of generateStructure names
BuiltinTags == {"blog", "portfolio", "ecommerce", "documentation", "corporate"}

\* the reference catalog: base names of the domain tables of a tag, in order
BaseNames(tag) ==
    CASE tag = "blog" -> <<"posts", "categories", "tags", "post_tags", "authors", "comments">>
      [] tag = "portfolio" -> <<"projects", "skills", "project_skills">>
      [] tag = "ecommerce" -> <<"products", "categories", "orders">>
      [] tag = "documentation" -> <<"pages", "sections">>
      [] tag = "corporate" -> <<"pages", "team_members", "services">>
      [] OTHER -> <<"content">>

\* the tables the README lists for a website type
ReadmeTables(tag) ==
    CASE tag = "blog" -> {"posts", "categories", "tags", "authors", "comments"}
      [] tag = "portfolio" -> {"projects", "skills"}
      [] tag = "ecommerce" -> {"products", "categories", "orders", "customers"}
      [] tag = "documentation" -> {"pages", "sections"}
      [] tag = "corporate" -> {"pages", "team_members", "services"}
      [] OTHER -> {"content"}

MetadataFieldNames == <<"id", "entity_type", "entity_id", "meta_key", "meta_value", "created_at">>

MediaFieldNames ==
    <<"id", "filename", "original_name", "mime_type", "size", "url", "alt_text", "width",
      "height", "uploaded_at">>

TagOf(config) == IF Has(config, "websiteType") THEN config.websiteType ELSE "absent"

FlagOn(config, key) == Has(config, key) /\ config[key] = TRUE

Count(b) == IF b THEN 1 ELSE 0

EndsWith(s, suffix) ==
    Len(s) >= Len(suffix) /\ SubSeq(s, Len(s) - Len(suffix) + 1, Len(s)) = suffix

\* name is prefix+base; with no tablePrefix configured only the base name is compared
Named(config, name, base) ==
    IF Has(config, "tablePrefix") THEN name = config.tablePrefix \o base ELSE EndsWith(name, base)

FieldNames(table) == [i \in 1..Len(table.fields) |-> table.fields[i].name]

FlaggedTrue(f, key) == Has(f, key) /\ f[key] = TRUE

HasImplicitId(table) ==
    /\ Len(table.fields) >= 1
    /\ table.fields[1].name = "id"
    /\ table.fields[1].type = "integer"
    /\ FlaggedTrue(table.fields[1], "primaryKey")
    /\ FlaggedTrue(table.fields[1], "autoIncrement")

\* the tables one build has appended to the list of instance g
Added(g) == SubSeq(tables'[g], Len(tables[g]) + 1, Len(tables'[g]))

C6Step(g) ==
    LET config == cfg[g]
        n == Len(BaseNames(TagOf(config)))
        m == Count(FlagOn(config, "includeMetadata"))
        i == Count(FlagOn(config, "includeImages"))
        added == Added(g)
    IN  /\ SubSeq(tables'[g], 1, Len(tables[g])) = tables[g]
        /\ Len(added) = n + m + i
        /\ Cardinality({ k \in 1..Len(added) : Named(config, added[k].name, "metadata") }) = m
        /\ Cardinality({ k \in 1..Len(added) : Named(config, added[k].name, "media") }) = i
        /\ m = 1 => /\ Named(config, added[n + 1].name, "metadata")
                    /\ FieldNames(added[n + 1]) = MetadataFieldNames
                    /\ HasImplicitId(added[n + 1])
        /\ i = 1 => /\ Named(config, added[n + m + 1].name, "media")
                    /\ FieldNames(added[n + m + 1]) = MediaFieldNames
                    /\ HasImplicitId(added[n + m + 1])

\* C6: for every tag, a build appends the domain tables, then exactly one metadata
\* table (id, entity_type, entity_id, meta_key, meta_value, created_at) when
\* includeMetadata is true, then exactly one media table (id, filename, original_name,
\* mime_type, size, url, alt_text, width, height, uploaded_at) when includeImages is
\* true; a flag that is false or unset adds no such table.
C6_FeatureTablesAppended ==
    [][\A g \in DirectGens : built'[g] = built[g] + 1 => C6Step(g)]_vars

\* a first build with both flags on has produced metadata and then media, last
C6_Witness ==
    \E g \in DirectGens :
        /\ built[g] = 1
        /\ FlagOn(cfg[g], "includeMetadata") /\ FlagOn(cfg[g], "includeImages")
        /\ TagOf(cfg[g]) = "portfolio"
        /\ Len(tables[g]) = 5
        /\ EndsWith(tables[g][4].name, "metadata")
        /\ EndsWith(tables[g][5].name, "media")

DomainNamesMatch(g) ==
    LET config == cfg[g]
        names == BaseNames(TagOf(config))
    IN  /\ Len(tables[g]) >= Len(names)
        /\ Len(names) >= 1
        /\ \A k \in 1..Len(names) : Named(config, tables[g][k].name, names[k])
        /\ Len(tables[g]) = Len(names) + Count(FlagOn(config, "includeMetadata"))
                                       + Count(FlagOn(config, "includeImages"))

\* C7: on a fresh generator the domain tables of blog, portfolio, ecommerce,
\* documentation, corporate and custom carry the base names of the reference catalog,
\* in its order, and two fresh generators with the same configuration build equal lists.
C7_DomainCatalogFixed ==
    /\ \A g \in DirectGens :
        (built[g] = 1 /\ TagOf(cfg[g]) \in BuiltinTags \cup {"custom"}) => DomainNamesMatch(g)
    /\ (built["g1"] = 1 /\ built["g2"] = 1) => tables["g1"] = tables["g2"]

C7_Witness ==
    /\ built["g1"] = 1 /\ built["g2"] = 1
    /\ TagOf(cfg["g1"]) = "documentation"
    /\ Len(tables["g1"]) >= 2
    /\ EndsWith(tables["g1"][1].name, "pages")
    /\ EndsWith(tables["g2"][2].name, "sections")

\* C8: the tables of each website type include every table the README names for it
\* (e-commerce: products, categories, orders and customers).
C8_ReadmeTablesPresent ==
    \A g \in DirectGens :
        (built[g] = 1 /\ TagOf(cfg[g]) \in BuiltinTags \cup {"custom"}) =>
            \A base \in ReadmeTables(TagOf(cfg[g])) :
                \E k \in 1..Len(tables[g]) : Named(cfg[g], tables[g][k].name, base)

\* C9: a websiteType that is absent or not one of the five built-in tags yields
\* exactly one domain table, named prefix+content.
C9_FallbackToContent ==
    \A g \in DirectGens :
        (built[g] = 1 /\ TagOf(cfg[g]) \notin BuiltinTags) =>
            /\ Len(tables[g]) = 1 + Count(FlagOn(cfg[g], "includeMetadata"))
                                  + Count(FlagOn(cfg[g], "includeImages"))
            /\ Named(cfg[g], tables[g][1].name, "content")
            /\ \A k \in 2..Len(tables[g]) : ~Named(cfg[g], tables[g][k].name, "content")

C9_Witness ==
    \E g \in DirectGens :
        /\ built[g] = 1
        /\ TagOf(cfg[g]) = "forum"
        /\ Len(tables[g]) = 1
        /\ EndsWith(tables[g][1].name, "content")

HasPrimaryKey(table) ==
    \/ HasImplicitId(table)
    \/ \E k \in 1..Len(table.fields) : FlaggedTrue(table.fields[k], "primaryKey")

HasCreatedAt(table) ==
    \E k \in 1..Len(table.fields) :
        /\ table.fields[k].name = "created_at"
        /\ table.fields[k].type = "timestamp"
        /\ FlaggedTrue(table.fields[k], "required")

\* C10: every domain table of every tag has a primary key (the implicit id, or fields
\* flagged primaryKey) and a required created_at timestamp.
C10_PrimaryKeyAndCreatedAt ==
    \A g \in DirectGens :
        built[g] = 1 =>
            \A k \in 1..Len(BaseNames(TagOf(cfg[g]))) :
                HasPrimaryKey(tables[g][k]) /\ HasCreatedAt(tables[g][k])

Returned(c) == call[c].pc = "returned"

ResultOf(c) == call[c].out[1]

\* C1: calls of generateFromFiles with the same file list and configuration return the
\* same table list and the same totalFields, whatever ran before them, earlier calls on
\* the same instance included.
C1_Repeatable ==
    \A c1, c2 \in DirectCalls :
        (Returned(c1) /\ Returned(c2) /\ call[c1].files = call[c2].files) =>
            /\ ResultOf(c1).tables = ResultOf(c2).tables
            /\ ResultOf(c1).totalFields = ResultOf(c2).totalFields

\* C2: two runs on fresh generators with equal configuration return the same tables and
\* the same totalFields, whatever file lists they were given.
C2_FilesDoNotMatter ==
    \A c1, c2 \in DirectCalls :
        (Returned(c1) /\ Returned(c2) /\ call[c1].gen # call[c2].gen) =>
            /\ cfg[call[c1].gen] = cfg[call[c2].gen]
            /\ ResultOf(c1).tables = ResultOf(c2).tables
            /\ ResultOf(c1).totalFields = ResultOf(c2).totalFields
            /\ ResultOf(c1).totalFields > 0

\* one run read a file and the other run was given none it could read
C2_Witness ==
    /\ Returned("c1") /\ Returned("c2")
    /\ call["c1"].gen # call["c2"].gen
    /\ Len(call["c1"].files) = 2 /\ Len(call["c1"].content) >= 1
    /\ Len(call["c2"].files) = 1 /\ Len(call["c2"].content) = 0
    /\ ResultOf("c1").tables = ResultOf("c2").tables

IsReadable(fileInfo) == disk[fileInfo.path] = "present"

PathsOf(infos) == [i \in 1..Len(infos) |-> infos[i].path]

\* the files of call c the loop has gone past
Visited(c) == SubSeq(call[c].files, 1, call[c].idx - 1)

RendererThrowsFor(config) ==
    /\ Has(config, "databaseType") /\ config.databaseType = "mongodb"
    /\ ~Has(config, "projectName")

CompleteResult(r) ==
    /\ Len(r.sql) > 0
    /\ Len(r.tables) > 0
    /\ r.totalFields > 0

\* C3: a file that cannot be read is left out of analyzedData.content, every other file
\* is analysed in list order, and no file failure makes generateFromFiles reject: the
\* call returns a complete result unless the renderer itself throws.
C3_FileFailureIsolated ==
    \A c \in DirectCalls :
        call[c].pc # "none" =>
            /\ PathsOf(call[c].content) = PathsOf(SelectSeq(Visited(c), IsReadable))
            /\ call[c].pc \in {"returned", "rejected"} => call[c].idx = Len(call[c].files) + 1
            /\ call[c].pc = "rejected" => RendererThrowsFor(cfg[call[c].gen])
            /\ Returned(c) => (Len(call[c].out) = 1 /\ CompleteResult(ResultOf(c)))

\* the first file could not be read, the second one was analysed, a result came back
C3_Witness ==
    \E c \in DirectCalls :
        /\ Returned(c)
        /\ PathsOf(call[c].files) = <<"uploads/notes.json", "uploads/data.csv">>
        /\ PathsOf(call[c].content) = <<"uploads/data.csv">>
        /\ CompleteResult(ResultOf(c))

Settled(c) == call[c].pc \in {"returned", "rejected"}

\* C4: when the renderer throws (document store, projectName unset) generateFromFiles
\* rejects with the error and yields no result object, and the handler answers 500 with
\* an error body; a success body is only ever built from a complete result.
C4_RendererFailureIsFatal ==
    /\ (Settled("srv") /\ RendererThrowsFor(cfg["srv"])) =>
            /\ call["srv"].pc = "rejected"
            /\ call["srv"].out = <<>>
            /\ call["srv"].error # ""
            /\ res.status \in {0, 500}
            /\ ~Has(res.body, "success") /\ ~Has(res.body, "schema")
            /\ hpc = "done" => (res.status = 500 /\ res.body.message = call["srv"].error)
    /\ res.status = 200 =>
            /\ Returned("srv")
            /\ CompleteResult(ResultOf("srv"))
            /\ res.body.schema = ResultOf("srv").sql
            /\ res.body.tables = ResultOf("srv").tables

C4_Witness ==
    /\ hpc = "done"
    /\ RendererThrowsFor(cfg["srv"])
    /\ call["srv"].pc = "rejected"
    /\ res.status = 500
    /\ Has(res.body, "error")

Attempted(i) == cleanup[i] \in {"removed", "failed"}

\* C5: a request that carries files is answered only after cleanupFiles has attempted
\* the unlink of every uploaded file, after a success and after a failure alike; one
\* failed unlink leaves the other attempts standing, and no removable file is left.
C5_CleanupBeforeResponse ==
    (res.status # 0 /\ req.hasFiles /\ Len(req.files) >= 1) =>
        /\ Len(cleanup) = Len(req.files)
        /\ \A i \in 1..Len(req.files) :
            /\ Attempted(i)
            /\ disk[req.files[i].path] # "present"
            /\ cleanup[i] = "failed" => disk[req.files[i].path] \in {"locked", "absent"}

\* the error path: the first unlink failed, the second one removed its file
C5_Witness ==
    /\ res.status = 500
    /\ Len(req.files) = 2
    /\ cleanup = <<"failed", "removed">>

StartsWith(s, prefix) == Len(s) >= Len(prefix) /\ SubSeq(s, 1, Len(prefix)) = prefix

\* the text of line between a leading and a trailing part of known lengths
Inner(line, lead, trail) == SubSeq(line, lead + 1, Len(line) - trail)

CreateTableLead == "CREATE TABLE IF NOT EXISTS "

MongoNameLead == "      \"name\": "

IsTableLine(line) == StartsWith(line, CreateTableLead) \/ StartsWith(line, MongoNameLead)

\* the table names a rendered text declares, in text order, without their quotes
RenderedTableNames(sql) ==
    LET heads == SelectSeq(sql, IsTableLine)
    IN  [i \in 1..Len(heads) |->
            IF StartsWith(heads[i], CreateTableLead)
            THEN Inner(heads[i], Len(CreateTableLead) + 1, 3)
            ELSE Inner(heads[i], Len(MongoNameLead) + 1, 2)]

\* base names of everything one build adds under config, in order
BuildNames(config) ==
    BaseNames(TagOf(config))
    \o (IF FlagOn(config, "includeMetadata") THEN <<"metadata">> ELSE <<>>)
    \o (IF FlagOn(config, "includeImages") THEN <<"media">> ELSE <<>>)

TableNames(tbls) == [i \in 1..Len(tbls) |-> tbls[i].name]

\* position i of a list that holds the tables of one build after another
BaseNameAt(config, i) == BuildNames(config)[((i - 1) % Len(BuildNames(config))) + 1]

\* C11: with a tablePrefix configured, every table name of the returned list is
\* tablePrefix followed by its catalog base name (domain, metadata and media tables
\* alike), and the rendered text of each dialect declares exactly these names.
C11_EveryNamePrefixed ==
    \A c \in DirectCalls :
        (Returned(c) /\ Has(cfg[call[c].gen], "tablePrefix")) =>
            LET config == cfg[call[c].gen]
                names == TableNames(ResultOf(c).tables)
            IN  /\ \A i \in 1..Len(names) :
                        names[i] = config.tablePrefix \o BaseNameAt(config, i)
                /\ RenderedTableNames(ResultOf(c).sql) = names

C11_Witness ==
    \E c \in DirectCalls :
        /\ Returned(c)
        /\ Has(cfg[call[c].gen], "tablePrefix") /\ cfg[call[c].gen].tablePrefix = "wp_"
        /\ FlagOn(cfg[call[c].gen], "includeImages")
        /\ selectedRenderer(cfg[call[c].gen]) = "mongodb"
        /\ RenderedTableNames(ResultOf(c).sql) = <<"wp_pages", "wp_sections", "wp_media">>

\* C12: with tablePrefix unset the prefix is the empty string: every table name is its
\* bare catalog base name.
C12_UnsetPrefixIsEmpty ==
    \A g \in DirectGens :
        (built[g] = 1 /\ ~Has(cfg[g], "tablePrefix")) =>
            TableNames(tables[g]) = BuildNames(cfg[g])

WithoutTimestamp(sql) == SelectSeq(sql, LAMBDA line : ~StartsWith(line, "-- Generated at: "))

HeaderLines(sql) == SelectSeq(sql, LAMBDA line : StartsWith(line, "-- Generated "))

DialectOf(config) ==
    IF Has(config, "databaseType") /\ config.databaseType \in {"postgresql", "sqlite", "mongodb"}
    THEN config.databaseType
    ELSE "mysql"

\* C13: a run renders with exactly one renderer: mysql, postgresql, sqlite and mongodb
\* select their own, and an unset or any other databaseType renders the text that
\* databaseType mysql renders, the timestamp line aside.
C13_OneRendererSelected ==
    \A c \in DirectCalls :
        Returned(c) =>
            LET config == cfg[call[c].gen]
                sql == ResultOf(c).sql
                asMySQL == [databaseType |-> "mysql"] @@ config
            IN  /\ DialectOf(config) = "mysql" =>
                    /\ Len(HeaderLines(sql)) = 2
                    /\ StartsWith(sql[1], "-- Generated MySQL Schema for ")
                    /\ \E now \in Clock :
                        WithoutTimestamp(sql)
                            = WithoutTimestamp(generateSQL(asMySQL, ResultOf(c).tables, now))
                /\ DialectOf(config) = "postgresql" =>
                    /\ Len(HeaderLines(sql)) = 2
                    /\ StartsWith(sql[1], "-- Generated PostgreSQL Schema for ")
                /\ DialectOf(config) = "sqlite" =>
                    /\ Len(HeaderLines(sql)) = 2
                    /\ StartsWith(sql[1], "-- Generated SQLite Schema for ")
                /\ DialectOf(config) = "mongodb" =>
                    /\ Len(HeaderLines(sql)) = 0
                    /\ sql[1] = "{"

C13_Witness ==
    \E c \in DirectCalls :
        /\ Returned(c)
        /\ Has(cfg[call[c].gen], "databaseType") /\ cfg[call[c].gen].databaseType = "oracle"
        /\ StartsWith(ResultOf(c).sql[1], "-- Generated MySQL Schema for ")
        /\ Len(ResultOf(c).tables) > 0

Applied(fn) == arg.fn = fn /\ ret.kind = "value"

\* s is a sanitized identifier
WellFormedName(s) ==
    /\ \A i \in 1..Len(s) : CharAt(s, i) \in Chars("abcdefghijklmnopqrstuvwxyz0123456789_")
    /\ s # "" => (CharAt(s, 1) # "_" /\ CharAt(s, Len(s)) # "_")
    /\ \A i \in 1..(Len(s) - 1) : ~(CharAt(s, i) = "_" /\ CharAt(s, i + 1) = "_")

\* C14: sanitizeFieldName returns a string over [a-z0-9_] with no leading, trailing or
\* doubled underscore, and applied to its own result it returns that result.
C14_SanitizeWellFormedIdempotent ==
    Applied("sanitizeFieldName") =>
        /\ WellFormedName(ret.value)
        /\ Len(ret.value) <= Len(arg.value)
        /\ arg.first # <<>> => ret.value = arg.value

\* "_B -" became "b", and sanitizing "b" again gave "b"
C14_Witness ==
    /\ Applied("sanitizeFieldName")
    /\ arg.first = <<"_B -">>
    /\ arg.value = "b"
    /\ ret.value = "b"

\* the characters i..j of t are digits (none when j < i)
DigitRun(t, i, j) == \A k \in i..j : CharAt(t, k) \in Chars("0123456789")

\* t[from..] is an exponent: e or E, an optional sign, at least one digit, nothing else
ExponentFrom(t, from) ==
    \E q \in 0..1 :
        /\ from + q + 1 <= Len(t)
        /\ CharAt(t, from) \in {"e", "E"}
        /\ q = 1 => CharAt(t, from + 1) \in {"+", "-"}
        /\ DigitRun(t, from + q + 1, Len(t))

\* t is a number written out in full: an optional sign, then Infinity or digits with at
\* most one point and an optional exponent; or an unsigned 0x, 0o or 0b integer
NumberText(t) ==
    \/ t \in {"Infinity", "+Infinity", "-Infinity"}
    \/ \E p \in 0..1 :
        /\ p = 1 => (t # "" /\ CharAt(t, 1) \in {"+", "-"})
        /\ \E a \in p..Len(t) :
            /\ DigitRun(t, p + 1, a)
            /\ \E b \in a..Len(t) :
                /\ b > a => (CharAt(t, a + 1) = "." /\ DigitRun(t, a + 2, b))
                /\ (a - p) + (IF b > a THEN b - a - 1 ELSE 0) >= 1
                /\ b < Len(t) => ExponentFrom(t, b + 1)
    \/ /\ Len(t) >= 3
       /\ \/ SubSeq(t, 1, 2) \in {"0x", "0X"}
             /\ \A k \in 3..Len(t) : CharAt(t, k) \in Chars("0123456789abcdefABCDEF")
          \/ SubSeq(t, 1, 2) \in {"0o", "0O"}
             /\ \A k \in 3..Len(t) : CharAt(t, k) \in Chars("01234567")
          \/ SubSeq(t, 1, 2) \in {"0b", "0B"}
             /\ \A k \in 3..Len(t) : CharAt(t, k) \in {"0", "1"}

DateAt(t) ==
    /\ Len(t) >= 10
    /\ DigitRun(t, 1, 4) /\ CharAt(t, 5) = "-"
    /\ DigitRun(t, 6, 7) /\ CharAt(t, 8) = "-"
    /\ DigitRun(t, 9, 10)

TimeAt(t) ==
    /\ Len(t) >= 19
    /\ CharAt(t, 11) \in {"T", " "}
    /\ DigitRun(t, 12, 13) /\ CharAt(t, 14) = ":"
    /\ DigitRun(t, 15, 16) /\ CharAt(t, 17) = ":"
    /\ DigitRun(t, 18, 19)

\* the type of the first rule of the priority list that matches
FirstRule(value) ==
    IF value.type \in {"null", "undefined"} THEN "string"
    ELSE LET t == trim(value.text) IN
         CASE t \in {"true", "false"} -> "boolean"
           [] t \notin {"true", "false"} /\ NumberText(t) ->
                IF \E k \in 1..Len(t) : CharAt(t, k) = "." THEN "decimal" ELSE "integer"
           [] OTHER ->
                IF DateAt(t) /\ Len(t) = 10 THEN "date"
                ELSE IF DateAt(t) /\ TimeAt(t) THEN "timestamp"
                ELSE IF Len(t) > 255 THEN "text"
                ELSE "string"

\* C15: inferType returns the type of the first matching rule: null or absent string;
\* true/false boolean; a number written out in full decimal when it holds a point, else
\* integer; YYYY-MM-DD date; YYYY-MM-DD, T or blank, HH:MM:SS and anything after it
\* timestamp; more than 255 characters text; otherwise string.  The empty string is a
\* string, a number of more than 255 characters is a number.
C15_InferTypeFirstRule ==
    Applied("inferType") =>
        /\ ret.value = FirstRule(arg.value)
        /\ (arg.value.type = "string" /\ trim(arg.value.text) = "") => ret.value = "string"
        /\ (arg.value.type = "string" /\ Len(arg.value.text) > 255
                /\ DigitRun(arg.value.text, 1, Len(arg.value.text))) => ret.value = "integer"

\* 256 digits are an integer, not a text
C15_Witness ==
    /\ Applied("inferType")
    /\ arg.value.type = "string"
    /\ Len(arg.value.text) = 256
    /\ DigitRun(arg.value.text, 1, 256)
    /\ ret.value = "integer"

\* the lines of content that are not blank
NonBlankLines(content) == SelectSeq(split(content, "\n"), LAMBDA line : trim(line) # "")

\* the sanitized header at comma position i of a header line
HeaderName(line, i) == sanitizeFieldName(trim(split(line, ",")[i]))

\* the type the value at comma position i of a sample line infers
SampleType(line, i) ==
    IF i <= Len(split(line, ",")) THEN inferType(StrDefault(trim(split(line, ",")[i])))
    ELSE "string"

\* C16: analyzeCSV returns null for content without a non-blank line; otherwise one
\* field per sanitized header of the first non-blank line, each required false and of
\* type string, or, when a second non-blank line exists, of the type inferType gives the
\* value at the header's comma position in it (string where the line has no such
\* position; of headers that sanitize to one name the last one decides).
C16_AnalyzeCSVFields ==
    Applied("analyzeCSV") =>
        LET rows == NonBlankLines(arg.value)
            n == Len(split(rows[1], ","))
        IN  /\ rows = <<>> <=> ret.value = JsNull
            /\ rows # <<>> =>
                /\ DOMAIN ret.value = { HeaderName(rows[1], i) : i \in 1..n }
                /\ \A name \in DOMAIN ret.value :
                    /\ DOMAIN ret.value[name] = {"type", "required"}
                    /\ ret.value[name].required = FALSE
                    /\ Len(rows) = 1 => ret.value[name].type = "string"
                /\ Len(rows) >= 2 =>
                    \A i \in 1..n :
                        (\A j \in (i + 1)..n : HeaderName(rows[1], j) # HeaderName(rows[1], i))
                            => ret.value[HeaderName(rows[1], i)].type = SampleType(rows[2], i)
            /\ arg.value = "name,age\nAlice,30" =>
                ret.value = [name |-> [type |-> "string", required |-> FALSE],
                             age |-> [type |-> "integer", required |-> FALSE]]

C16_Witness ==
    /\ Applied("analyzeCSV")
    /\ arg.value = "name,age\nAlice,30"
    /\ ret.value = [name |-> [type |-> "string", required |-> FALSE],
                    age |-> [type |-> "integer", required |-> FALSE]]

\* where the collection objects of a document-store text begin
CollectionStarts(sql) == { i \in 1..Len(sql) : sql[i] = "    {" }

\* the lines of the k-th collection object
CollectionBlock(sql, k) ==
    LET starts == CollectionStarts(sql)
        from == CHOOSE i \in starts : Cardinality({ j \in starts : j < i }) = k - 1
        later == { j \in starts : j > from }
        to == IF later = {} THEN Len(sql)
              ELSE (CHOOSE j \in later : \A l \in later : j <= l) - 1
    IN  SubSeq(sql, from, to)

EntryLead == "            \""

\* the entries of the required array of a block, in text order
RequiredEntries(block) ==
    LET items == SelectSeq(block, LAMBDA line :
                    StartsWith(line, EntryLead) /\ ~EndsWith(line, ": {"))
    IN  [i \in 1..Len(items) |->
            IF EndsWith(items[i], ",") THEN Inner(items[i], Len(EntryLead), 2)
            ELSE Inner(items[i], Len(EntryLead), 1)]

\* the keys of the properties map of a block, in text order
PropertyKeys(block) ==
    LET items == SelectSeq(block, LAMBDA line :
                    StartsWith(line, EntryLead) /\ EndsWith(line, ": {"))
    IN  [i \in 1..Len(items) |-> Inner(items[i], Len(EntryLead), 4)]

AutoIncrementNames(table) ==
    { table.fields[i].name : i \in { j \in 1..Len(table.fields) :
                                        FlaggedTrue(table.fields[j], "autoIncrement") } }

\* C17: in the document-store text every table has a required list that names, in
\* field order, the fields that are required and not autoIncrement, and a properties
\* map whose keys are the non-autoIncrement fields; no autoIncrement field is named.
C17_MongoSkipsAutoIncrement ==
    \A c \in DirectCalls :
        (Returned(c) /\ DialectOf(cfg[call[c].gen]) = "mongodb") =>
            LET sql == ResultOf(c).sql
                tbls == ResultOf(c).tables
            IN  /\ Cardinality(CollectionStarts(sql)) = Len(tbls)
                /\ \A k \in 1..Len(tbls) :
                    LET block == CollectionBlock(sql, k)
                        fields == tbls[k].fields
                    IN  /\ RequiredEntries(block) =
                            FieldNames([fields |-> SelectSeq(fields, LAMBDA f :
                                FlaggedTrue(f, "required") /\ ~FlaggedTrue(f, "autoIncrement"))])
                        /\ PropertyKeys(block) =
                            FieldNames([fields |-> SelectSeq(fields, LAMBDA f :
                                ~FlaggedTrue(f, "autoIncrement"))])
                        /\ Range(RequiredEntries(block)) \cap AutoIncrementNames(tbls[k]) = {}
                        /\ Range(PropertyKeys(block)) \cap AutoIncrementNames(tbls[k]) = {}

\* project_skills of a portfolio: two required fields, both described, and projects
\* without its id
C17_Witness ==
    \E c \in DirectCalls :
        /\ Returned(c)
        /\ DialectOf(cfg[call[c].gen]) = "mongodb"
        /\ TagOf(cfg[call[c].gen]) = "portfolio"
        /\ Len(ResultOf(c).tables) = 3
        /\ AutoIncrementNames(ResultOf(c).tables[1]) = {"id"}
        /\ "id" \notin Range(PropertyKeys(CollectionBlock(ResultOf(c).sql, 1)))
        /\ RequiredEntries(CollectionBlock(ResultOf(c).sql, 3)) = <<"project_id", "skill_id">>

\* where the CREATE TABLE blocks of a relational text begin
TableStarts(sql) == { i \in 1..Len(sql) : StartsWith(sql[i], CreateTableLead) }

\* the lines of the k-th CREATE TABLE block
TableBlock(sql, k) ==
    LET starts == TableStarts(sql)
        from == CHOOSE i \in starts : Cardinality({ j \in starts : j < i }) = k - 1
        later == { j \in starts : j > from }
        to == IF later = {} THEN Len(sql)
              ELSE (CHOOSE j \in later : \A l \in later : j <= l) - 1
    IN  SubSeq(sql, from, to)

\* a column line: two blanks, then the quoted column name
IsColumnLine(line) ==
    /\ Len(line) > 4
    /\ SubSeq(line, 1, 2) = "  "
    /\ CharAt(line, 3) \in {"\"", Backquote}

\* the quoted name a column line begins with
ColumnName(line) ==
    LET closing == { i \in 4..Len(line) : CharAt(line, i) = CharAt(line, 3) }
    IN  SubSeq(line, 4, (CHOOSE i \in closing : \A j \in closing : i <= j) - 1)

\* the columns of a block, in text order
ColumnNames(block) ==
    LET items == SelectSeq(block, IsColumnLine)
    IN  [i \in 1..Len(items) |-> ColumnName(items[i])]

NotAutoIncrement(f) == ~FlaggedTrue(f, "autoIncrement")

\* the fields a renderer writes an entry for: the document store leaves out autoIncrement
RenderedFields(dialect, table) ==
    IF dialect = "mongodb"
    THEN FieldNames([fields |-> SelectSeq(table.fields, NotAutoIncrement)])
    ELSE FieldNames(table)

\* the names the k-th block of a text holds entries for
BlockEntries(dialect, sql, k) ==
    IF dialect = "mongodb" THEN PropertyKeys(CollectionBlock(sql, k))
    ELSE ColumnNames(TableBlock(sql, k))

BlockCount(dialect, sql) ==
    IF dialect = "mongodb" THEN Cardinality(CollectionStarts(sql))
    ELSE Cardinality(TableStarts(sql))

\* C18 as amended: every renderer writes one block per table, in table-list order, under
\* the table's name; a relational block holds one column per field, in field order, and
\* a document-store block one property per field that is not autoIncrement, in field
\* order.
C18_BlockPerTableEntryPerRenderedField ==
    \A c \in DirectCalls :
        Returned(c) =>
            LET dialect == DialectOf(cfg[call[c].gen])
                sql == ResultOf(c).sql
                tbls == ResultOf(c).tables
            IN  /\ BlockCount(dialect, sql) = Len(tbls)
                /\ RenderedTableNames(sql) = TableNames(tbls)
                /\ \A k \in 1..Len(tbls) :
                    BlockEntries(dialect, sql, k) = RenderedFields(dialect, tbls[k])

\* a PostgreSQL text of a blog with the media table: eight blocks, post_tags with its
\* three columns
C18_Witness ==
    \E c \in DirectCalls :
        /\ Returned(c)
        /\ DialectOf(cfg[call[c].gen]) = "postgresql"
        /\ TagOf(cfg[call[c].gen]) = "blog"
        /\ Len(ResultOf(c).tables) = 8
        /\ ColumnNames(TableBlock(ResultOf(c).sql, 4)) = <<"post_id", "tag_id", "created_at">>
        /\ Len(ColumnNames(TableBlock(ResultOf(c).sql, 8))) = 10

\* C18 as stated: each of the four renderers writes one block per table, in order and
\* under the table's name, with exactly one entry per field of the table, in field order.
C18_EntryPerField ==
    \A c \in DirectCalls :
        Returned(c) =>
            LET dialect == DialectOf(cfg[call[c].gen])
                sql == ResultOf(c).sql
                tbls == ResultOf(c).tables
            IN  /\ BlockCount(dialect, sql) = Len(tbls)
                /\ RenderedTableNames(sql) = TableNames(tbls)
                /\ \A k \in 1..Len(tbls) :
                    BlockEntries(dialect, sql, k) = FieldNames(tbls[k])

(* ---- C19 ---- *)


\* a readable .json file whose content JSON.parse rejects
UnparsableJson(f) ==
    /\ f.extension = ".json"
    /\ readFileResolves(disk, f.path)
    /\ JSONparseThrows(FileText(f.path))

\* C19: for a .json file whose content does not parse, analyzeJSON returns a null
\* structure without throwing, the file contributes no entry to analyzedData.content
\* and no names to commonFields, and the run is not aborted.
C19_UnparsableJsonSkipped ==
    \A c \in DirectCalls :
        \A f \in Range(Visited(c)) :
            UnparsableJson(f) =>
                /\ call[c].pc # "rejected"
                /\ analyzeJSON(FileText(f.path)) = JsNull
                /\ \A k \in 1..Len(call[c].content) : call[c].content[k].path # f.path
                /\ call[c].commonFields = {}

(* ---- C20 ---- *)

\* this step applies to instance g the operation that was applied last, to the same instance
AppliedAgain(g, fn) ==
    /\ arg = [fn |-> fn, gen |-> g]
    /\ arg' = arg
    /\ \/ fn = "addMetadataTables" /\ AddMetadataTables(g)
       \/ fn = "addMediaTables" /\ AddMediaTables(g)

\* C20: addMetadataTables and addMediaTables are each idempotent (applied a second time
\* to a table list, either leaves the list as the first application left it) and
\* independent (neither changes a table that is already in the list).
C20_AugmentersIdempotentIndependent ==
    [][\A g \in DirectGens :
        /\ \A fn \in {"addMetadataTables", "addMediaTables"} :
                AppliedAgain(g, fn) => tables'[g] = tables[g]
        /\ Len(tables'[g]) >= Len(tables[g])
        /\ SubSeq(tables'[g], 1, Len(tables[g])) = tables[g]]_vars

(* ---- C21 ---- *)

\* the field names the analyser of file f inferred, none for a null structure
InferredNames(f) ==
    LET structure == analyzeContent(FileText(f.path), f).structure
    IN  IF structure = JsNull THEN {} ELSE DOMAIN structure

\* C21: after analyzeFiles, commonFields is the union, over the files that were read
\* and analysed, of the sanitized field names the analysers inferred for them.
C21_CommonFieldsIsUnion ==
    \A c \in DirectCalls :
        call[c].commonFields =
            UNION { InferredNames(f) :
                    f \in { v \in Range(Visited(c)) : readFileResolves(disk, v.path) } }

(* ---- C22 ---- *)

\* C22: inferType matches true and false in every casing: a value that is true or
\* false once trimmed and lower-cased is a boolean.
C22_BooleanAnyCasing ==
    (Applied("inferType") /\ arg.value.type = "string"
        /\ toLowerCase(trim(arg.value.text)) \in {"true", "false"})
            => ret.value = "boolean"

(* ---- C23 ---- *)

\* the longest chain of nested non-null childStructure values below a structure
RECURSIVE ChildChain(_)
ChildChain(structure) ==
    IF structure = JsNull THEN 0
    ELSE LET children == { structure[name].childStructure :
                            name \in { n \in DOMAIN structure : structure[n].type = "relation" } }
             RECURSIVE Longest(_)
             Longest(S) == IF S = {} THEN 0
                           ELSE LET x == CHOOSE y \in S : TRUE
                                    rest == Longest(S \ {x})
                                    here == IF x = JsNull THEN 0 ELSE 1 + ChildChain(x)
                                IN  IF here > rest THEN here ELSE rest
         IN  Longest(children)

\* the entries of an object that decide its fields: of two keys with one sanitized name
\* the later one
DecidingEntries(obj) ==
    { i \in 1..Len(obj.entries) :
        \A j \in (i + 1)..Len(obj.entries) :
            sanitizeFieldName(obj.entries[j].key) # sanitizeFieldName(obj.entries[i].key) }

\* C23: inferStructureFromObject returns for every parsed tree, the chain of nested
\* non-null childStructure values below the returned structure is at most 3 long, a
\* call at a depth above 3 returns null, an object-valued field becomes type json and is
\* not descended into, an array-valued field becomes type relation with the child shape
\* of the array's first element alone, and an empty array gives a null child.
C23_InferStructureDepthCapped ==
    Applied("inferStructureFromObject") =>
        /\ ChildChain(ret.value) <= 3
        /\ \A depth \in 4..(MaxJsonDepth + 1) :
                inferStructureFromObject(arg.value, depth) = JsNull
        /\ arg.value.type = "object" =>
                \A i \in DecidingEntries(arg.value) :
                    LET value == arg.value.entries[i].value
                        field == ret.value[sanitizeFieldName(arg.value.entries[i].key)]
                    IN  /\ value.type = "object" => field = [type |-> "json", required |-> FALSE]
                        /\ value.type = "array" =>
                            /\ field.type = "relation"
                            /\ Len(value.items) = 0 => field.childStructure = JsNull
                            /\ Len(value.items) > 0 =>
                                    field.childStructure =
                                        inferStructureFromObject(value.items[1], 1)

\* a tree nested deeper than the cap gave a structure whose chain is exactly 3 long
C23_Witness ==
    /\ Applied("inferStructureFromObject")
    /\ ChildChain(ret.value) = 3
    /\ ChildChain(inferStructureFromObjectUncapped(arg.value, 0)) > 3

(* ---- C24 ---- *)

\* a number a field carries under key, when it is set and not 0, else the default
NumberOr(field, key, dflt) ==
    IF key \in DOMAIN field /\ field[key] # 0 THEN ToString(field[key]) ELSE ToString(dflt)

\* the table of types: Relational-A, Relational-B, Embedded, Document
TypeTable(field) ==
    LET varchar == "VARCHAR(" \o NumberOr(field, "length", 255) \o ")"
        decimal == "DECIMAL(" \o NumberOr(field, "precision", 10) \o ","
                              \o NumberOr(field, "scale", 2) \o ")"
        stamp == "TIMESTAMP DEFAULT CURRENT_TIMESTAMP"
    IN  CASE field.type = "integer" -> <<"INT", "INTEGER", "INTEGER", "int">>
          [] field.type = "string" -> <<varchar, varchar, "TEXT", "string">>
          [] field.type = "text" -> <<"TEXT", "TEXT", "TEXT", "string">>
          [] field.type = "boolean" -> <<"BOOLEAN", "BOOLEAN", "INTEGER", "bool">>
          [] field.type = "date" -> <<"DATE", "DATE", "TEXT", "date">>
          [] field.type = "timestamp" -> <<stamp, stamp, "TEXT", "date">>
          [] field.type = "decimal" -> <<decimal, decimal, "REAL", "double">>
          [] OTHER -> <<"VARCHAR(255)", "VARCHAR(255)", "TEXT", "string">>

\* C24: each renderer maps every type as the table of types says, a string to
\* VARCHAR(n) with n the length of the field or 255, a decimal to DECIMAL(p,s) with
\* defaults 10 and 2, and every type outside the table to VARCHAR(255), VARCHAR(255),
\* TEXT and string.
C24_TypeTable ==
    /\ Applied("mapTypeToMySQL") => ret.value = TypeTable(arg.value)[1]
    /\ Applied("mapTypeToPostgreSQL") => ret.value = TypeTable(arg.value)[2]
    /\ Applied("mapTypeToSQLite") => ret.value = TypeTable(arg.value)[3]
    /\ Applied("mapTypeToMongo") => ret.value = TypeTable(arg.value)[4]

\* the embedded dialect mapped a boolean
C24_Witness ==
    /\ Applied("mapTypeToSQLite")
    /\ arg.value.type = "boolean"
    /\ ret.value = "INTEGER"

(* ---- C25 ---- *)

\* a renderer wrote the block of a table
Rendered(dialect) == Applied("renderTable") /\ arg.dialect = dialect

\* the names of the fields of a table flagged key, in field order
Flagged(table, key) ==
    LET flagged == SelectSeq(table.fields, LAMBDA f : FlaggedTrue(f, key))
    IN  [i \in 1..Len(flagged) |-> flagged[i].name]

PrimaryKeyLead == "  PRIMARY KEY ("

\* the PRIMARY KEY clause that lists names
RECURSIVE QuotedList(_)
QuotedList(names) ==
    IF Len(names) = 1 THEN Backquote \o names[1] \o Backquote
    ELSE Backquote \o names[1] \o Backquote \o ", " \o QuotedList(Tail(names))

\* C25: in Relational-A output a table block ends with one PRIMARY KEY (...) clause that
\* lists, in field order, exactly the fields flagged primaryKey; the clause is there if
\* and only if the table has such a field; the column line of each autoIncrement field
\* carries AUTO_INCREMENT.
C25_MySQLPrimaryKeyClause ==
    Rendered("mysql") =>
        LET block == ret.value
            table == arg.value
            keys == Flagged(table, "primaryKey")
            clauses == { i \in 1..Len(block) : StartsWith(block[i], PrimaryKeyLead) }
        IN  /\ keys = <<>> <=> clauses = {}
            /\ keys # <<>> =>
                /\ clauses = {Len(table.fields) + 2}
                /\ Len(block) = Len(table.fields) + 4
                /\ block[Len(table.fields) + 2] = PrimaryKeyLead \o QuotedList(keys) \o ")"
            /\ \A i \in 1..Len(table.fields) :
                    FlaggedTrue(table.fields[i], "autoIncrement")
                        => /\ StartsWith(block[i + 1],
                                         "  " \o Backquote \o table.fields[i].name \o Backquote)
                           /\ includes(block[i + 1], " AUTO_INCREMENT")

\* a table with a key of two fields, one of them autoIncrement, and a field outside the key
C25_Witness ==
    /\ Rendered("mysql")
    /\ Len(Flagged(arg.value, "primaryKey")) = 2
    /\ Len(Flagged(arg.value, "autoIncrement")) = 1
    /\ Len(arg.value.fields) = 3
    /\ \E i \in 1..Len(ret.value) : StartsWith(ret.value[i], PrimaryKeyLead)

(* ---- C26 ---- *)

\* line without the comma that separates it from the next column
WithoutComma(line) ==
    IF Len(line) > 0 /\ CharAt(line, Len(line)) = "," THEN SubSeq(line, 1, Len(line) - 1)
    ELSE line

\* the column line of field i of a block
ColumnLine(block, i) == block[i + 1]

\* is the column of an identity: primaryKey and autoIncrement at once
IsIdentity(f) == FlaggedTrue(f, "primaryKey") /\ FlaggedTrue(f, "autoIncrement")

\* the clauses after the type of a column, in the order required, default, unique
ClausesOf(f) ==
    (IF FlaggedTrue(f, "required") THEN " NOT NULL" ELSE "")
    \o (IF "default" \in DOMAIN f THEN " DEFAULT '" \o f.default.text \o "'" ELSE "")
    \o (IF FlaggedTrue(f, "unique") THEN " UNIQUE" ELSE "")

\* C26: in Relational-B output a field flagged both primaryKey and autoIncrement is the
\* single column definition "<name>" SERIAL PRIMARY KEY with no NOT NULL, DEFAULT or
\* UNIQUE clause; every other field is its mapped type followed by NOT NULL when
\* required, DEFAULT '<value>' when a default is set and UNIQUE when unique, in that order.
C26_PostgresSerialColumn ==
    Rendered("postgresql") =>
        \A i \in 1..Len(arg.value.fields) :
            LET f == arg.value.fields[i]
                line == WithoutComma(ColumnLine(ret.value, i))
            IN  IF IsIdentity(f)
                THEN line = "  \"" \o f.name \o "\" SERIAL PRIMARY KEY"
                ELSE line = "  \"" \o f.name \o "\" " \o TypeTable(f)[2] \o ClausesOf(f)

\* an identity that is also required, unique and has a default, next to an ordinary column
\* with all three clauses
C26_Witness ==
    /\ Rendered("postgresql")
    /\ \E i, j \in 1..Len(arg.value.fields) :
        LET f == arg.value.fields[i]
            g == arg.value.fields[j]
        IN  /\ IsIdentity(f) /\ "default" \in DOMAIN f /\ FlaggedTrue(f, "unique")
            /\ ~IsIdentity(g) /\ "default" \in DOMAIN g /\ FlaggedTrue(g, "unique")
            /\ FlaggedTrue(g, "required")
            /\ includes(ColumnLine(ret.value, j), " NOT NULL DEFAULT 'draft' UNIQUE")
            /\ ~includes(ColumnLine(ret.value, i), "DEFAULT")

(* ---- C27 ---- *)

\* the clause that holds the default of field f single-quoted as it is
QuotedDefault(f) == " DEFAULT '" \o f.default.text \o "'"

\* C27 as amended: each of the three relational renderers writes the default of a field
\* single-quoted and verbatim, DEFAULT '<value>', whatever the type of the value and
\* with no escaping, and writes no DEFAULT '...' for a field without a default; the one
\* exception is the identity column of Relational-B, which carries no DEFAULT clause.
\* The document renderer writes no default at all.
C27_RelationalDefaultsQuotedVerbatim ==
    /\ \A dialect \in {"mysql", "postgresql", "sqlite"} :
        Rendered(dialect) =>
            \A i \in 1..Len(arg.value.fields) :
                LET f == arg.value.fields[i]
                    line == ColumnLine(ret.value, i)
                IN  IF "default" \in DOMAIN f /\ ~(dialect = "postgresql" /\ IsIdentity(f))
                    THEN includes(line, QuotedDefault(f))
                    ELSE ~includes(line, " DEFAULT '")
    /\ Rendered("mongodb") =>
            \A k \in 1..Len(ret.value) : ~includes(ret.value[k], "DEFAULT")

\* defaults false, 0 and a text with a quote in it, each written quoted as it is
C27_Witness ==
    /\ Rendered("sqlite")
    /\ \E i, j, k \in 1..Len(arg.value.fields) :
        /\ includes(ColumnLine(ret.value, i), " DEFAULT 'false'")
        /\ includes(ColumnLine(ret.value, j), " DEFAULT '0'")
        /\ includes(ColumnLine(ret.value, k), " DEFAULT 'it's'")

\* C27 as stated: for every field that has a default value, every renderer writes that
\* value single-quoted and verbatim, and a field without a default gets no
\* DEFAULT '<value>' clause.
C27_EveryRendererQuotesDefaults ==
    Applied("renderTable") =>
        \A i \in 1..Len(arg.value.fields) :
            LET f == arg.value.fields[i]
                about == { k \in 1..Len(ret.value) :
                            \/ includes(ret.value[k], "\"" \o f.name \o "\"")
                            \/ includes(ret.value[k], Backquote \o f.name \o Backquote) }
            IN  IF "default" \in DOMAIN f
                THEN \E k \in about : includes(ret.value[k], QuotedDefault(f))
                ELSE \A k \in about : ~includes(ret.value[k], " DEFAULT '")

(* ---- C28 ---- *)

\* C28: in every table of every table list, for every domain tag and every combination
\* of includeMetadata and includeImages, the field names are pairwise distinct and at
\* most one field combines primaryKey with autoIncrement.
C28_FieldNamesDistinctOneIdentity ==
    \A g \in DirectGens :
        \A k \in 1..Len(tables[g]) :
            LET fields == tables[g][k].fields IN
            /\ \A i, j \in 1..Len(fields) : fields[i].name = fields[j].name => i = j
            /\ Cardinality({ i \in 1..Len(fields) : IsIdentity(fields[i]) }) <= 1

\* a blog with both feature tables has been built; one of its tables has no identity
C28_Witness ==
    \E g \in DirectGens :
        /\ built[g] > 0
        /\ Has(cfg[g], "websiteType") /\ cfg[g].websiteType = "blog"
        /\ Truthy(cfg[g], "includeMetadata")
        /\ Truthy(cfg[g], "includeImages")
        /\ \E k \in 1..Len(tables[g]) : Len(tables[g][k].fields) > 5
        /\ \E k \in 1..Len(tables[g]) :
                \A i \in 1..Len(tables[g][k].fields) : ~IsIdentity(tables[g][k].fields[i])

(* ---- C29 ---- *)

\* the extension of a file name: the lower-cased text after its last dot, none without a dot
DotExtension(name) ==
    LET dots == { i \in 1..Len(name) : CharAt(name, i) = "." } IN
    IF dots = {} THEN ""
    ELSE toLowerCase(SubSeq(name, (CHOOSE i \in dots : \A j \in dots : j <= i) + 1, Len(name)))

\* C29: after any sequence of addFiles, removeFile, input-method change and reset,
\* selectedFiles holds only files whose extension is one of pdf, doc, docx, txt, json,
\* xml, csv, md and no two entries of the same name and size; reset and the switch to
\* directory input leave it empty.
C29_SelectedFilesValidDistinct ==
    /\ [](\A i \in 1..Len(page.selectedFiles) :
            /\ DotExtension(page.selectedFiles[i].name) \in validExtensions
            /\ \A j \in 1..Len(page.selectedFiles) :
                    (/\ page.selectedFiles[i].name = page.selectedFiles[j].name
                     /\ page.selectedFiles[i].size = page.selectedFiles[j].size) => i = j)
    /\ [][(HandleReset \/ HandleInputMethodChange("directory"))
                => page'.selectedFiles = <<>>]_vars

(* ---- C30 ---- *)

\* there is nothing to send under the input method chosen
NothingToSend ==
    \/ page.inputMethod = "files" /\ Len(page.selectedFiles) = 0
    \/ page.inputMethod = "directory" /\ page.selectedDirectory = <<>>

\* C30: a submission that fails validation sends no request and leaves the submit
\* button enabled; one that passes sends the request and disables the button while the
\* request is in flight; the button is enabled again and the progress section hidden in
\* the end, whether the server answers OK, answers with another status, or the request
\* fails.
C30_SubmitButtonReenabled ==
    /\ [][HandleFormSubmit =>
            IF NothingToSend
            THEN page'.sent = page.sent /\ ~page'.submitDisabled /\ page'.pc = "idle"
            ELSE page'.sent = page.sent + 1 /\ page'.submitDisabled]_vars
    /\ [](page.pc # "idle" => page.submitDisabled)
    /\ (page.submitDisabled ~> (~page.submitDisabled /\ page.progressHidden))

\* a request was sent and answered OK: the results are shown, the button is enabled again
C30_Witness ==
    /\ page.sent > 0
    /\ page.pc = "idle"
    /\ ~page.submitDisabled
    /\ page.progressHidden
    /\ ~page.resultsHidden

====
